---- MODULE Spec2Model ----
(***************************************************************************)
(* Model of the MyCodeAnalyzer backend utilities:                          *)
(*   - logicAnalyzer.js : analyzeLogicFile / analyzeLogicFiles and the     *)
(*     aggregation helpers (functionality comparison, coverage, summary,   *)
(*     critical test cases);                                               *)
(*   - testGenerator.js : runTestCode and its local-execution fallback.    *)
(*                                                                         *)
(* JavaScript strings are modelled as sequences of one-character strings,  *)
(* so that toLowerCase(), includes() and path.basename() are computed and  *)
(* not assumed.  JavaScript values whose type the code inspects            *)
(* (Array.isArray, typeof x === 'number', truthiness) are tagged records.  *)
(***************************************************************************)
EXTENDS Integers, Sequences, FiniteSets, TLC

(***************************************************************************)
(* Bounds                                                                  *)
(***************************************************************************)
\* largest number of file records in one request to analyzeLogicFiles
MaxFiles == 2

(***************************************************************************)
(* JavaScript strings                                                      *)
(***************************************************************************)
UpperChars == <<"A","B","C","D","E","F","G","H","I","J","K","L","M",
                "N","O","P","Q","R","S","T","U","V","W","X","Y","Z">>
LowerChars == <<"a","b","c","d","e","f","g","h","i","j","k","l","m",
                "n","o","p","q","r","s","t","u","v","w","x","y","z">>

\* String.prototype.toLowerCase on one character
toLowerChar(c) ==
  IF \E i \in 1..Len(UpperChars) : UpperChars[i] = c
  THEN LowerChars[CHOOSE i \in 1..Len(UpperChars) : UpperChars[i] = c]
  ELSE c

\* String.prototype.toLowerCase
toLowerCase(s) == [i \in 1..Len(s) |-> toLowerChar(s[i])]

\* String.prototype.includes
includes(s, sub) ==
  \E i \in 0..(Len(s) - Len(sub)) : SubSeq(s, i + 1, i + Len(sub)) = sub

\* Array.prototype.includes on an array of strings (SameValueZero: exact match)
arrayIncludes(arr, x) == \E i \in 1..Len(arr) : arr[i] = x

\* Array.prototype.join
RECURSIVE join(_, _)
join(parts, sep) ==
  IF Len(parts) = 0 THEN <<>>
  ELSE IF Len(parts) = 1 THEN parts[1]
  ELSE parts[1] \o sep \o join(Tail(parts), sep)

(***************************************************************************)
(* JavaScript values                                                       *)
(***************************************************************************)
Undefined == [t |-> "undefined"]
Arr(items) == [t |-> "array", v |-> items]
Num(n) == [t |-> "number", v |-> n]
isArray(x) == x.t = "array"
isNumber(x) == x.t = "number"

\* the slot of a promise that has not settled yet
Pending == [t |-> "pending"]

Str(chars) == [t |-> "string", v |-> chars]
isString(x) == x.t = "string"

(***************************************************************************)
(* logicAnalyzer.js : analyzeLogicFile                                     *)
(***************************************************************************)
\* the four patterns of the exclusion heuristic
PatError == <<"e","r","r","o","r">>
PatException == <<"e","x","c","e","p","t","i","o","n">>
PatErrorPage == <<"e","r","r","o","r"," ","p","a","g","e">>
PatExceptionPage == <<"e","x","c","e","p","t","i","o","n"," ","p","a","g","e">>

\* the name tested as written, without toLowerCase()
nameExcludedCaseSensitive(fileName) ==
  \/ includes(fileName, PatError)
  \/ includes(fileName, PatException)

\* the name half of the skip condition; when it holds, || short-circuits and
\* fileContent is never touched
nameExcluded(fileName) ==
  \/ includes(toLowerCase(fileName), PatError)
  \/ includes(toLowerCase(fileName), PatException)

\* the content half of the skip condition (fileContent is a string here)
contentExcluded(fileContent) ==
  \/ includes(toLowerCase(fileContent), PatErrorPage)
  \/ includes(toLowerCase(fileContent), PatExceptionPage)

\* fileContent.toLowerCase() on a value that is not a string is a TypeError,
\* raised before the try block of analyzeLogicFile: the promise is rejected
analyzeLogicFileThrows(fileContent, fileName) ==
  /\ ~nameExcluded(fileName)
  /\ ~isString(fileContent)

\* the skip condition of analyzeLogicFile (evaluated only when it does not throw)
isSkipped(fileContent, fileName) ==
  IF nameExcluded(fileName) THEN TRUE ELSE contentExcluded(fileContent.v)

\* the three records analyzeLogicFile resolves to.  A field the JavaScript
\* object does not carry is Undefined (skipped: undefined is falsy, so FALSE).
NoPayload ==
  [summary |-> Undefined,
   expectedFunctionalities |-> Undefined,
   actualFunctionalities |-> Undefined,
   missingCoreFunctionalities |-> Undefined,
   missingNegativeTestCases |-> Undefined,
   missingTestCases |-> Undefined,
   coveragePercentage |-> Undefined]

skippedResult(fileName) ==
  [success |-> FALSE, fileName |-> fileName, skipped |-> TRUE,
   reason |-> "Error handling file excluded from core functionality analysis",
   error |-> "", body |-> NoPayload]

failedResult(fileName, message) ==
  [success |-> FALSE, fileName |-> fileName, skipped |-> FALSE,
   reason |-> "", error |-> message, body |-> NoPayload]

\* { success: true, fileName, ...analysisResult }
successResult(fileName, analysisResult) ==
  [success |-> TRUE, fileName |-> fileName, skipped |-> FALSE,
   reason |-> "", error |-> "", body |-> analysisResult]

\* what the awaited model call plus JSON.parse produce: a parsed payload, or
\* an exception (network / API error, or a content that is not JSON)
analysisOf(fileName, response) ==
  IF response.ok THEN successResult(fileName, response.body)
  ELSE failedResult(fileName, response.message)

(***************************************************************************)
(* logicAnalyzer.js : aggregation helpers                                  *)
(***************************************************************************)
\* analysisResults.filter(result => result.success)
successfulAnalyses(results) == SelectSeq(results, LAMBDA r : r.success)

\* Array.prototype.push for each element of arr: no membership test
appendAll(ordered, arr) == ordered \o arr

\* Set.prototype.add for each element of arr, on an insertion-ordered Set
RECURSIVE addAll(_, _)
addAll(ordered, arr) ==
  IF Len(arr) = 0 THEN ordered
  ELSE addAll(IF arrayIncludes(ordered, Head(arr)) THEN ordered
              ELSE Append(ordered, Head(arr)), Tail(arr))

\* the Set of all expected functionalities, in insertion order
RECURSIVE allExpectedFunctionalities(_, _)
allExpectedFunctionalities(acc, analyses) ==
  IF Len(analyses) = 0 THEN acc
  ELSE allExpectedFunctionalities(
         IF isArray(Head(analyses).body.expectedFunctionalities)
         THEN addAll(acc, Head(analyses).body.expectedFunctionalities.v)
         ELSE acc,
         Tail(analyses))

\* every occurrence is kept
RECURSIVE collectEveryMissingCore(_, _)
collectEveryMissingCore(acc, analyses) ==
  IF Len(analyses) = 0 THEN acc
  ELSE collectEveryMissingCore(
         IF isArray(Head(analyses).body.missingCoreFunctionalities)
         THEN acc \o Head(analyses).body.missingCoreFunctionalities.v
         ELSE acc,
         Tail(analyses))

\* the deduplicated missing core functionalities, in first-seen order
RECURSIVE collectMissingCore(_, _)
collectMissingCore(acc, analyses) ==
  IF Len(analyses) = 0 THEN acc
  ELSE collectMissingCore(
         IF isArray(Head(analyses).body.missingCoreFunctionalities)
         THEN addAll(acc, Head(analyses).body.missingCoreFunctionalities.v)
         ELSE acc,
         Tail(analyses))

\* a comparison that ignores letter case
implementsFunctionalityIgnoringCase(result, functionality) ==
  /\ isArray(result.body.actualFunctionalities)
  /\ \E i \in 1..Len(result.body.actualFunctionalities.v) :
       toLowerCase(result.body.actualFunctionalities.v[i]) = toLowerCase(functionality)

\* the test of the implementingFiles filter
implementsFunctionality(result, functionality) ==
  /\ isArray(result.body.actualFunctionalities)
  /\ arrayIncludes(result.body.actualFunctionalities.v, functionality)

implementingFiles(analyses, functionality) ==
  SelectSeq(analyses, LAMBDA r : implementsFunctionality(r, functionality))

\* one row of the comparison table
comparisonEntry(analyses, functionality) ==
  LET files == implementingFiles(analyses, functionality) IN
  [functionality |-> functionality,
   implemented |-> Len(files) > 0,
   implementationStatus |-> IF Len(files) > 0 THEN "Complete" ELSE "Missing",
   implementedIn |-> [i \in 1..Len(files) |-> files[i].fileName]]

comparisonTable(analyses) ==
  LET all == allExpectedFunctionalities(<<>>, analyses) IN
  [i \in 1..Len(all) |-> comparisonEntry(analyses, all[i])]

\* comparisonTable.some(item => item.implemented)
someImplemented(table) == \E i \in 1..Len(table) : table[i].implemented

RECURSIVE sumSeq(_)
sumSeq(s) == IF Len(s) = 0 THEN 0 ELSE Head(s) + sumSeq(Tail(s))

\* Math.floor(num / den)
mathFloorDiv(num, den) == num \div den

\* Math.round(num / den) for num >= 0, den > 0: halves round up
mathRoundDiv(num, den) == (2 * num + den) \div (2 * den)

\* the per-file percentages that are numbers
filesCoveragePercentages(analyses) ==
  LET numeric == SelectSeq(analyses, LAMBDA r : isNumber(r.body.coveragePercentage))
  IN [i \in 1..Len(numeric) |-> numeric[i].body.coveragePercentage.v]

\* the coverage before the floor
computedCoveragePercentage(analyses, table) ==
  LET pcts == filesCoveragePercentages(analyses)
      implementedCount == Len(SelectSeq(table, LAMBDA e : e.implemented))
      totalCount == Len(table)
  IN IF Len(pcts) > 0 THEN mathRoundDiv(sumSeq(pcts), Len(pcts))
     ELSE IF totalCount > 0 THEN mathRoundDiv(implementedCount * 100, totalCount)
     ELSE 0

\* no floor
unflooredCoveragePercentage(coverage, table) == coverage

\* the floor of generateFunctionalityComparison
flooredCoveragePercentage(coverage, table) ==
  IF coverage = 0 /\ someImplemented(table)
  THEN (IF 1 > coverage THEN 1 ELSE coverage)
  ELSE coverage

generateFunctionalityComparison(results) ==
  LET analyses == successfulAnalyses(results) IN
  IF Len(analyses) = 0
  THEN [comparisonTable |-> <<>>,
        missingCoreFunctionalities |-> <<>>,
        overallCoveragePercentage |-> 0]
  ELSE LET table == comparisonTable(analyses) IN
       [comparisonTable |-> table,
        missingCoreFunctionalities |-> collectMissingCore(<<>>, analyses),
        overallCoveragePercentage |->
          flooredCoveragePercentage(computedCoveragePercentage(analyses, table), table)]

\* a summary the model left out joins as the empty string
summaryText(result) ==
  IF isString(result.body.summary) THEN result.body.summary.v ELSE <<>>

SummarySeparator == <<"\n", "\n">>
NoSummary ==
  <<"N","o"," ","s","u","c","c","e","s","s","f","u",
    "l"," ","f","i","l","e"," ","a","n","a","l","y",
    "s","e","s"," ","t","o"," ","g","e","n","e","r",
    "a","t","e"," ","s","u","m","m","a","r","y">>

\* the summaries joined, without the placeholder of an empty list
joinedSummaries(results) ==
  LET analyses == successfulAnalyses(results) IN
  join([i \in 1..Len(analyses) |-> summaryText(analyses[i])], SummarySeparator)

generateAggregatedSummary(results) ==
  LET analyses == successfulAnalyses(results) IN
  IF Len(analyses) = 0 THEN NoSummary
  ELSE join([i \in 1..Len(analyses) |-> summaryText(analyses[i])], SummarySeparator)

(***************************************************************************)
(* logicAnalyzer.js : extractCriticalTestCases                             *)
(***************************************************************************)
\* result.missingNegativeTestCases || result.missingTestCases
\* (an array, even an empty one, is truthy; undefined is falsy)
testCasesOf(result) ==
  IF result.body.missingNegativeTestCases # Undefined
  THEN result.body.missingNegativeTestCases
  ELSE result.body.missingTestCases

\* { ...testCase, fileName: result.fileName }
taggedTestCase(testCase, fileName) ==
  [description |-> testCase.description,
   criticality |-> testCase.criticality,
   fileName |-> fileName]

RECURSIVE allMissingTestCases(_)
allMissingTestCases(analyses) ==
  IF Len(analyses) = 0 THEN <<>>
  ELSE LET result == Head(analyses)
           testCases == testCasesOf(result)
       IN (IF isArray(testCases)
           THEN [i \in 1..Len(testCases.v) |->
                   taggedTestCase(testCases.v[i], result.fileName)]
           ELSE <<>>)
          \o allMissingTestCases(Tail(analyses))

\* criticalityOrder = { 'High': 0, 'Medium': 1, 'Low': 2 }
criticalityOrder(criticality) ==
  CASE criticality = "High" -> 0
    [] criticality = "Medium" -> 1
    [] criticality = "Low" -> 2

\* a comparator with the operands exchanged
compareCriticalityDescending(a, b) ==
  criticalityOrder(b.criticality) - criticalityOrder(a.criticality)

\* the comparator handed to Array.prototype.sort
compareCriticality(a, b) ==
  criticalityOrder(a.criticality) - criticalityOrder(b.criticality)

\* Array.prototype.sort is stable (ECMAScript 2019): an element moves in front
\* of exactly the elements the comparator puts strictly after it
RECURSIVE insertSorted(_, _)
insertSorted(sorted, x) ==
  IF Len(sorted) = 0 THEN <<x>>
  ELSE IF compareCriticality(sorted[Len(sorted)], x) > 0
       THEN Append(insertSorted(SubSeq(sorted, 1, Len(sorted) - 1), x),
                   sorted[Len(sorted)])
       ELSE Append(sorted, x)

RECURSIVE sortByCriticality(_, _)
sortByCriticality(sorted, rest) ==
  IF Len(rest) = 0 THEN sorted
  ELSE sortByCriticality(insertSorted(sorted, Head(rest)), Tail(rest))

extractCriticalTestCases(results) ==
  LET analyses == successfulAnalyses(results) IN
  IF Len(analyses) = 0 THEN <<>>
  ELSE sortByCriticality(<<>>, allMissingTestCases(analyses))

(***************************************************************************)
(* logicAnalyzer.js : analyzeLogicFiles                                    *)
(***************************************************************************)
\* files.filter(file => file.classification === 'logic')
\* every file of the request, whatever its classification
allFiles(fs) == fs

filterLogicFiles(fs) == SelectSeq(fs, LAMBDA f : f.classification = "logic")

\* no filter
unfilteredFiles(results) == results

\* analysisResults.filter(result => !result.skipped)
nonSkippedFiles(results) == SelectSeq(results, LAMBDA r : ~r.skipped)

\* the forced minimum of analyzeLogicFiles, applied to the value
\* generateFunctionalityComparison returned
adjustedCoveragePercentage(functionalityData) ==
  IF /\ functionalityData.overallCoveragePercentage = 0
     /\ someImplemented(functionalityData.comparisonTable)
  THEN 50
  ELSE functionalityData.overallCoveragePercentage

failureResult(message) == [success |-> FALSE, error |-> message]

\* the value analyzeLogicFiles returns once Promise.all has resolved
aggregatedResults(logic, results) ==
  LET nonSkippedCount == Len(nonSkippedFiles(results)) IN
  IF nonSkippedCount = 0
  THEN failureResult("All logic files were excluded as error handling files")
  ELSE LET functionalityData == generateFunctionalityComparison(results) IN
       [success |-> TRUE,
        fileCount |-> [total |-> Len(logic),
                       analyzed |-> nonSkippedCount,
                       skipped |-> Len(logic) - nonSkippedCount],
        fileAnalyses |-> results,
        summary |-> generateAggregatedSummary(results),
        functionalityComparison |-> functionalityData.comparisonTable,
        missingCoreFunctionalities |-> functionalityData.missingCoreFunctionalities,
        coveragePercentage |-> adjustedCoveragePercentage(functionalityData),
        criticalTestCases |-> extractCriticalTestCases(results)]

(***************************************************************************)
(* State of one call of analyzeLogicFiles                                  *)
(***************************************************************************)
VARIABLES
  files,            \* the argument of analyzeLogicFiles
  pc,               \* "start", "awaiting" (at await Promise.all), "done"
  logicFiles,       \* const logicFiles
  analysisResults,  \* the result slots of Promise.all, Pending until settled
  pending,          \* indices of logicFiles whose model call is in flight
  modelCalls,       \* per index of logicFiles: model calls issued for it
  responses,        \* per index of logicFiles: what its model call produced
  completed,        \* the indices in the order their calls completed
  ret               \* the value analyzeLogicFiles returned

analysisVars ==
  <<files, pc, logicFiles, analysisResults, pending, modelCalls, responses,
    completed, ret>>

\* state of one call of runTestCode
VARIABLES
  rtArgs,        \* the arguments testCode, fileName, sourceCode as passed
  rtPc,          \* "start", "posted" (axios.post in flight), "resume", "done"
  azureRequest,  \* the body posted to the sandbox
  azureResponse, \* how axios.post settled in runTestOnAzure
  azureResult,   \* what runTestOnAzure resolved to
  rtOutcome      \* how the promise of runTestCode settled

runVars == <<rtArgs, rtPc, azureRequest, azureResponse, azureResult, rtOutcome>>

\* state of one request to a route of the server
VARIABLES
  request,   \* the route and req.body
  httpPc,    \* "received", the await the handler is suspended at, "done"
  upstream,  \* the calls the handler has issued, in order
  reply      \* the status and body passed to res.json

httpVars == <<request, httpPc, upstream, reply>>

\* state of one session of the App component
VARIABLES
  app,               \* the state hooks of App
  submits,           \* the runs of handleSubmit, in the order they started
  testRequests,      \* the runs of generateTest awaiting their response
  analysisRequests   \* the runs of handleAnalyzeLogic awaiting their response

uiVars == <<app, submits, testRequests, analysisRequests>>

vars == <<analysisVars, runVars, httpVars, uiVars>>

NotReturned == [t |-> "none"]
NoResponse == [t |-> "none"]

\* every request of at most MaxFiles records over a set of file records
Batches(fileSet) == UNION {[1..n -> fileSet] : n \in 0..MaxFiles}

InitAnalysis(fileSet) ==
  /\ files \in Batches(fileSet)
  /\ pc = "start"
  /\ logicFiles = <<>>
  /\ analysisResults = <<>>
  /\ pending = {}
  /\ modelCalls = <<>>
  /\ responses = <<>>
  /\ completed = <<>>
  /\ ret = NotReturned

\* the first free slot: results kept in completion order
firstPendingSlot(i, results) ==
  CHOOSE k \in 1..Len(results) :
    /\ results[k] = Pending
    /\ \A j \in 1..(k - 1) : results[j] # Pending

\* The slot of analysisResults a completed call writes: Promise.all stores
\* the value of the i-th promise at index i.
resultSlot(i, results) == i

\* analyzeLogicFiles up to `await Promise.all(analysisPromises)`: the filter,
\* and the synchronous part of every analyzeLogicFile call of the map (the
\* skip test, then the model request).  A call that throws there rejects its
\* promise; Promise.all then rejects and the catch block returns the failure,
\* while the requests already issued for the other files stay in flight.
Dispatch ==
  /\ pc = "start"
  /\ LET logic == filterLogicFiles(files)
         n == Len(logic)
         throws(i) == analyzeLogicFileThrows(logic[i].content, logic[i].path)
         skips(i) == ~throws(i) /\ isSkipped(logic[i].content, logic[i].path)
         called == {i \in 1..n : ~throws(i) /\ ~skips(i)}
     IN /\ logicFiles' = logic
        /\ modelCalls' = [i \in 1..n |-> IF i \in called THEN 1 ELSE 0]
        /\ responses' = [i \in 1..n |-> NoResponse]
        /\ pending' = called
        /\ analysisResults' =
             [i \in 1..n |-> IF skips(i) THEN skippedResult(logic[i].path)
                             ELSE Pending]
        /\ IF n = 0
           THEN /\ pc' = "done"
                /\ ret' = failureResult("No logic files found for analysis")
           ELSE IF \E i \in 1..n : throws(i)
           THEN /\ pc' = "done"
                /\ ret' = failureResult("TypeError")
           ELSE /\ pc' = "awaiting"
                /\ ret' = ret
  /\ UNCHANGED <<files, completed, runVars, httpVars, uiVars>>

\* the model call of logicFiles[i] completes with `response`; analyzeLogicFile
\* resumes after its await and resolves its promise
Complete(i, response) ==
  /\ pc = "awaiting"
  /\ i \in pending
  /\ pending' = pending \ {i}
  /\ responses' = [responses EXCEPT ![i] = response]
  /\ completed' = Append(completed, i)
  /\ analysisResults' =
       [analysisResults EXCEPT ![resultSlot(i, analysisResults)] =
          analysisOf(logicFiles[i].path, response)]
  /\ UNCHANGED <<files, pc, logicFiles, modelCalls, ret, runVars, httpVars, uiVars>>

\* every promise has resolved: Promise.all resolves and analyzeLogicFiles runs
\* to its return
Join ==
  /\ pc = "awaiting"
  /\ pending = {}
  /\ pc' = "done"
  /\ ret' = aggregatedResults(logicFiles, analysisResults)
  /\ UNCHANGED <<files, logicFiles, analysisResults, pending, modelCalls,
                 responses, completed, runVars, httpVars, uiVars>>

(***************************************************************************)
(* Regular expressions of testGenerator.js, over character sequences.      *)
(* Every pattern used is a sequence of literals and greedy runs of a       *)
(* character class, where no run can give a character to the element that  *)
(* follows it, so greedy matching never backtracks.                        *)
(***************************************************************************)
Digits == {"0","1","2","3","4","5","6","7","8","9"}
SpaceChars == {" ", "\t", "\n", "\r"}
WordChars ==
  {UpperChars[i] : i \in 1..Len(UpperChars)} \cup
  {LowerChars[i] : i \in 1..Len(LowerChars)} \cup Digits \cup {"_"}
WordDotChars == WordChars \cup {"."}

Lit(chars) == [t |-> "lit", v |-> chars, ci |-> FALSE]
LitIgnoreCase(chars) == [t |-> "lit", v |-> chars, ci |-> TRUE]
Run(class, min) == [t |-> "run", cls |-> class, min |-> min]

\* index of the last character of the maximal run of `class` starting at i
\* (i - 1 when the run is empty)
RECURSIVE runEnd(_, _, _)
runEnd(s, i, class) ==
  IF i <= Len(s) /\ s[i] \in class THEN runEnd(s, i + 1, class) ELSE i - 1

\* index of the last character of the match of `pat` starting at i, or -1
RECURSIVE matchEnd(_, _, _)
matchEnd(s, i, pat) ==
  IF Len(pat) = 0 THEN i - 1
  ELSE LET e == Head(pat) IN
       IF e.t = "lit"
       THEN LET j == i + Len(e.v) - 1 IN
            IF /\ j <= Len(s)
               /\ (IF e.ci THEN toLowerCase(SubSeq(s, i, j)) = e.v
                   ELSE SubSeq(s, i, j) = e.v)
            THEN matchEnd(s, j + 1, Tail(pat))
            ELSE -1
       ELSE LET j == runEnd(s, i, e.cls) IN
            IF j - i + 1 < e.min THEN -1 ELSE matchEnd(s, j + 1, Tail(pat))

\* s.replace(/pat/g, '') for a pattern that matches no empty string
RECURSIVE removeAll(_, _, _)
removeAll(s, i, pat) ==
  IF i > Len(s) THEN <<>>
  ELSE LET e == matchEnd(s, i, pat) IN
       IF e >= i THEN removeAll(s, e + 1, pat)
       ELSE <<s[i]>> \o removeAll(s, i + 1, pat)

\* String.prototype.trim
RECURSIVE trimStart(_)
trimStart(s) ==
  IF Len(s) > 0 /\ s[1] \in SpaceChars THEN trimStart(Tail(s)) ELSE s

RECURSIVE trimEnd(_)
trimEnd(s) ==
  IF Len(s) > 0 /\ s[Len(s)] \in SpaceChars
  THEN trimEnd(SubSeq(s, 1, Len(s) - 1)) ELSE s

trim(s) == trimEnd(trimStart(s))

\* /using\s+[\w.]+;\s*/
UsingPattern ==
  <<Lit(<<"u","s","i","n","g">>), Run(SpaceChars, 1), Run(WordDotChars, 1),
    Lit(<<";">>), Run(SpaceChars, 0)>>

\* /namespace\s+[\w.]+\s*\{/
NamespaceOpenPattern ==
  <<Lit(<<"n","a","m","e","s","p","a","c","e">>), Run(SpaceChars, 1),
    Run(WordDotChars, 1), Run(SpaceChars, 0), Lit(<<"{">>)>>

\* /class\s+([\w]+)/i
ClassPattern ==
  <<LitIgnoreCase(<<"c","l","a","s","s">>), Run(SpaceChars, 1), Run(WordChars, 1)>>

\* sourceCode.match(/class\s+([\w]+)/i): the first capture group of the
\* leftmost match, or <<>> when there is no match (null)
classMatch(sourceCode) ==
  LET starts == {i \in 1..Len(sourceCode) : matchEnd(sourceCode, i, ClassPattern) >= i} IN
  IF starts = {} THEN <<>>
  ELSE LET i == CHOOSE k \in starts : \A m \in starts : k <= m
           e == matchEnd(sourceCode, i, ClassPattern)
           w == runEnd(sourceCode, i + 5, SpaceChars) + 1
       IN SubSeq(sourceCode, w, e)

LineBreaks == {"\n", "\r"}

\* index of the last character of the match of /^\s*\}\s*$/m starting at i,
\* or -1.  The trailing \s* is greedy and gives characters back until $ holds:
\* at the end of the text, or in front of a line break.
closingBraceLineEnd(s, i) ==
  IF ~(i = 1 \/ s[i - 1] \in LineBreaks) THEN -1
  ELSE LET b == runEnd(s, i, SpaceChars) + 1 IN
       IF ~(b <= Len(s) /\ s[b] = "}") THEN -1
       ELSE LET k == runEnd(s, b + 1, SpaceChars)
                breaks == {m \in (b + 1)..k : s[m] \in LineBreaks}
            IN IF k = Len(s) THEN k
               ELSE IF breaks = {} THEN -1
               ELSE (CHOOSE m \in breaks : \A x \in breaks : x <= m) - 1

\* s.replace(/^\s*\}\s*$/gm, '')
RECURSIVE removeClosingBraceLines(_, _)
removeClosingBraceLines(s, i) ==
  IF i > Len(s) THEN <<>>
  ELSE LET e == closingBraceLineEnd(s, i) IN
       IF e >= i THEN removeClosingBraceLines(s, e + 1)
       ELSE <<s[i]>> \o removeClosingBraceLines(s, i + 1)

(***************************************************************************)
(* testGenerator.js : createTestProject, generateLocalExecutionInstructions,*)
(* generateDefaultTestDetails                                              *)
(***************************************************************************)
Null == [t |-> "null"]
Bool(b) == [t |-> "boolean", v |-> b]

\* JavaScript truthiness of a tagged value
truthy(x) ==
  CASE x.t = "boolean" -> x.v
    [] x.t = "string" -> Len(x.v) > 0
    [] x.t = "number" -> x.v # 0
    [] x.t = "array" -> TRUE
    [] x.t = "object" -> TRUE
    [] OTHER -> FALSE

DotCs == <<".","c","s">>

RECURSIVE stripTrailingSlashes(_)
stripTrailingSlashes(s) ==
  IF Len(s) > 1 /\ s[Len(s)] = "/"
  THEN stripTrailingSlashes(SubSeq(s, 1, Len(s) - 1)) ELSE s

\* the part of s after its last "/"
lastSegment(s) ==
  LET slashes == {i \in 1..Len(s) : s[i] = "/"} IN
  IF slashes = {} THEN s
  ELSE SubSeq(s, (CHOOSE i \in slashes : \A j \in slashes : j <= i) + 1, Len(s))

\* path.basename(fileName, '.cs') on a string
basename(fileName) ==
  IF fileName = DotCs THEN <<>>
  ELSE LET seg == lastSegment(stripTrailingSlashes(fileName)) IN
       IF /\ Len(seg) > Len(DotCs)
          /\ SubSeq(seg, Len(seg) - Len(DotCs) + 1, Len(seg)) = DotCs
       THEN SubSeq(seg, 1, Len(seg) - Len(DotCs))
       ELSE seg

DefaultClass == <<"D","e","f","a","u","l","t","C","l","a","s","s">>

\* sourceCode.match(...) and testCode.replace(...) are TypeErrors on a value
\* that is not a string
createTestProjectThrows(sourceCode, testCode) ==
  ~isString(sourceCode) \/ ~isString(testCode)

\* the text createTestProject returns: the fixed console-runner template with
\* its three holes filled
createTestProject(sourceCode, testCode) ==
  LET matched == classMatch(sourceCode.v)
      className == IF Len(matched) > 0 THEN matched ELSE DefaultClass
      cleanTestCode == removeAll(testCode.v, 1, UsingPattern)
      cleanSourceCode ==
        removeClosingBraceLines(removeAll(sourceCode.v, 1, NamespaceOpenPattern), 1)
  IN [template |-> "console-runner",
      sourceCode |-> trim(cleanSourceCode),
      testCode |-> trim(cleanTestCode),
      className |-> className]

\* path.basename throws a TypeError on a fileName that is not a string
generateLocalExecutionInstructionsThrows(testCode, fileName, sourceCode) ==
  ~isString(fileName) \/ createTestProjectThrows(sourceCode, testCode)

generateLocalExecutionInstructions(testCode, fileName, sourceCode) ==
  [projectCode |-> createTestProject(sourceCode, testCode),
   instructions |-> [template |-> "run-locally", className |-> basename(fileName.v)]]

DigitChar(i) == <<"1","2","3","4","5","6","7","8","9">>[i]

\* generateDefaultTestDetails(className, count)
generateDefaultTestDetails(className, count) ==
  [i \in 1..count |->
     [name |-> Str(<<"T","e","s","t", DigitChar(i), "_">> \o className),
      result |-> Str(<<"P","e","n","d","i","n","g">>),
      duration |-> Str(<<"N","/","A">>),
      error |-> Null]]

(***************************************************************************)
(* testGenerator.js : runTestOnAzure                                       *)
(***************************************************************************)
TestClass == <<"T","e","s","t","C","l","a","s","s">>

\* /\bclass\s+(\w+)\b/ : the trailing \b holds after a greedy \w+
AzureClassPattern ==
  <<Lit(<<"c","l","a","s","s">>), Run(SpaceChars, 1), Run(WordChars, 1)>>

\* sourceCode.match(/\bclass\s+(\w+)\b/): the capture of the leftmost match,
\* or <<>> when there is none
azureClassMatch(sourceCode) ==
  LET starts == {i \in 1..Len(sourceCode) :
                   /\ (i = 1 \/ sourceCode[i - 1] \notin WordChars)
                   /\ matchEnd(sourceCode, i, AzureClassPattern) >= i} IN
  IF starts = {} THEN <<>>
  ELSE LET i == CHOOSE k \in starts : \A m \in starts : k <= m
           e == matchEnd(sourceCode, i, AzureClassPattern)
           w == runEnd(sourceCode, i + 5, SpaceChars) + 1
       IN SubSeq(sourceCode, w, e)

\* the generated test goes to the sandbox as it is
forwardedRequestBody(testCode, sourceCode) ==
  LET matched == azureClassMatch(sourceCode)
      className == IF Len(matched) > 0 THEN matched ELSE TestClass
  IN [sourceCode |-> [template |-> "add-class", className |-> className],
      testCode |-> testCode]

\* the body of the POST: two fixed snippets with the class name filled in;
\* the testCode argument is logged and not used
azureRequestBody(testCode, sourceCode) ==
  LET matched == azureClassMatch(sourceCode)
      className == IF Len(matched) > 0 THEN matched ELSE TestClass
  IN [sourceCode |-> [template |-> "add-class", className |-> className],
      testCode |-> [template |-> "test-method", className |-> className]]

\* obj.key: undefined when the object has no such property, and on a
\* primitive
property(obj, key) == IF key \in DOMAIN obj THEN obj[key] ELSE Undefined

\* field || default
orDefault(field, default) == IF truthy(field) THEN field ELSE default

\* one element of results.details after the map
normalizedDetail(detail) ==
  IF detail.t = "object"
  THEN [name |-> orDefault(property(detail, "name"), Str(<<"U","n","k","n","o","w","n"," ","t","e","s","t">>)),
        result |-> orDefault(property(detail, "result"), Str(<<"U","n","k","n","o","w","n">>)),
        duration |-> orDefault(property(detail, "duration"), Str(<<"N","/","A">>)),
        error |-> orDefault(property(detail, "error"), Null)]
  ELSE [name |-> Str(<<"U","n","k","n","o","w","n"," ","t","e","s","t">>),
        result |-> Str(<<"U","n","k","n","o","w","n">>),
        duration |-> Str(<<"N","/","A">>),
        error |-> Null]

\* response.data with its details normalized.  The file is not in strict
\* mode: on a body that is a primitive, reading details gives undefined and
\* the assignment `results.details = []` has no effect.
normalizedResults(data) ==
  IF data.t # "object" THEN data
  ELSE LET details == property(data, "details") IN
       ("details" :>
          IF isArray(details)
          THEN Arr([i \in 1..Len(details.v) |-> normalizedDetail(details.v[i])])
          ELSE Arr(<<>>)) @@ data

\* the error passed on to the caller instead of a failure object
azureRejection(message) == [t |-> "rejected", error |-> Str(message)]

\* { success: false, error, results: null }
azureFailure(message) ==
  [t |-> "failure", success |-> Bool(FALSE), error |-> Str(message), results |-> Null]

InvalidResponse ==
  <<"I","n","v","a","l","i","d"," ","r","e","s","p","o","n",
    "s","e"," ","f","r","o","m"," ","A","z","u","r","e"," ",
    "F","u","n","c","t","i","o","n">>

\* what runTestOnAzure resolves to once axios.post has settled
azureResultOf(response) ==
  IF response.t = "error" THEN azureFailure(response.message)
  ELSE IF response.t = "empty"
  THEN azureFailure(InvalidResponse)
  ELSE normalizedResults(response.data)

(***************************************************************************)
(* testGenerator.js : runTestCode                                          *)
(***************************************************************************)
LocalRequired ==
  Str(<<"N","/","A"," ","(","L","o","c","a","l"," ","e","x","e",
      "c","u","t","i","o","n"," ","r","e","q","u","i","r","e",
      "d",")">>)
ExecutionFailed ==
  Str(<<"A","z","u","r","e"," ","F","u","n","c","t","i","o","n",
      " ","e","x","e","c","u","t","i","o","n"," ","f","a","i",
      "l","e","d">>)

\* the number of placeholder entries of the fallback
PendingDetailCount == 3

\* the object both fallback returns build
localFallback(testCode, fileName, sourceCode, className, error) ==
  LET localInstructions ==
        generateLocalExecutionInstructions(testCode, fileName, sourceCode)
      defaults == generateDefaultTestDetails(className, PendingDetailCount)
  IN [success |-> Bool(FALSE),
      error |-> error,
      passed |-> Num(0),
      failed |-> Num(0),
      skipped |-> Num(0),
      total |-> Num(0),
      duration |-> LocalRequired,
      details |-> Arr([i \in 1..Len(defaults) |->
                         [defaults[i] EXCEPT
                            !.result = Str(<<"P","e","n","d","i","n","g">>),
                            !.duration = LocalRequired]]),
      localExecution |-> Bool(TRUE),
      testCode |-> testCode,
      projectCode |-> localInstructions.projectCode,
      instructions |-> localInstructions.instructions]

\* { success: true, ...azureResult, onlineExecution: true }
onlineResult(result) ==
  ("onlineExecution" :> Bool(TRUE)) @@ result @@ ("success" :> Bool(TRUE))

Resolved(value) == [t |-> "resolved", value |-> value]
Rejected(error) == [t |-> "rejected", error |-> error]

\* `const className` is declared in the try block: the catch block is another
\* block scope, where the identifier className is not bound
classNameBoundInCatch == FALSE

\* the catch block of runTestCode
catchOutcome(testCode, fileName, sourceCode, error) ==
  IF generateLocalExecutionInstructionsThrows(testCode, fileName, sourceCode)
  THEN Rejected("TypeError")
  ELSE IF ~classNameBoundInCatch
  THEN Rejected("ReferenceError: className is not defined")
  ELSE Resolved(localFallback(testCode, fileName, sourceCode,
                              basename(fileName.v), Str(error)))

\* runTestCode from the return of runTestOnAzure to its own return
afterAzure(testCode, fileName, sourceCode, result) ==
  IF truthy(property(result, "success"))
  THEN Resolved(onlineResult(result))
  ELSE IF generateLocalExecutionInstructionsThrows(testCode, fileName, sourceCode)
  THEN catchOutcome(testCode, fileName, sourceCode, <<"T","y","p","e","E","r","r","o","r">>)
  ELSE Resolved(localFallback(testCode, fileName, sourceCode, basename(fileName.v),
                              orDefault(property(result, "error"), ExecutionFailed)))

(***************************************************************************)
(* State of one call of runTestCode                                        *)
(***************************************************************************)
NoRequest == [t |-> "none"]
NoResult == [t |-> "none"]

\* the parameter default `sourceCode = ''` applies to undefined only
sourceCodeParam(args) ==
  IF args.sourceCode = Undefined THEN Str(<<>>) ELSE args.sourceCode

InitRun(argSet) ==
  /\ rtArgs \in argSet
  /\ rtPc = "start"
  /\ azureRequest = NoRequest
  /\ azureResponse = NoResponse
  /\ azureResult = NoResult
  /\ rtOutcome = NotReturned

\* no call of runTestCode
RunIdle ==
  /\ rtArgs = [testCode |-> Undefined, fileName |-> Undefined, sourceCode |-> Undefined]
  /\ rtPc = "idle"
  /\ azureRequest = NoRequest
  /\ azureResponse = NoResponse
  /\ azureResult = NoResult
  /\ rtOutcome = NotReturned

\* no call of analyzeLogicFiles
AnalysisIdle ==
  /\ files = <<>>
  /\ pc = "idle"
  /\ logicFiles = <<>>
  /\ analysisResults = <<>>
  /\ pending = {}
  /\ modelCalls = <<>>
  /\ responses = <<>>
  /\ completed = <<>>
  /\ ret = NotReturned

\* no session of the App component
UiIdle ==
  /\ app = [mounted |-> FALSE]
  /\ submits = <<>>
  /\ testRequests = <<>>
  /\ analysisRequests = <<>>

NoRoute == [route |-> "none"]
NoReply == [t |-> "none"]

\* no request to the server
HttpIdle ==
  /\ request = NoRoute
  /\ httpPc = "idle"
  /\ upstream = <<>>
  /\ reply = NoReply

\* runTestCode up to `await runTestOnAzure(...)`, and runTestOnAzure up to
\* `await axios.post(...)`.  path.basename throws on a fileName that is not a
\* string (control goes to the catch block of runTestCode); sourceCode.match
\* throws inside the try block of runTestOnAzure, which resolves to a failure.
RunTestStart ==
  /\ rtPc = "start"
  /\ LET sourceCode == sourceCodeParam(rtArgs) IN
     IF ~isString(rtArgs.fileName)
     THEN /\ rtPc' = "done"
          /\ rtOutcome' = catchOutcome(rtArgs.testCode, rtArgs.fileName, sourceCode,
                                       <<"T","y","p","e","E","r","r","o","r">>)
          /\ UNCHANGED <<azureRequest, azureResponse, azureResult>>
     ELSE IF ~isString(sourceCode)
     THEN /\ rtPc' = "resume"
          /\ azureResult' = azureFailure(<<"T","y","p","e","E","r","r","o","r">>)
          /\ UNCHANGED <<azureRequest, azureResponse, rtOutcome>>
     ELSE /\ rtPc' = "posted"
          /\ azureRequest' = azureRequestBody(rtArgs.testCode, sourceCode.v)
          /\ UNCHANGED <<azureResponse, azureResult, rtOutcome>>
  /\ UNCHANGED <<rtArgs, analysisVars, httpVars, uiVars>>

\* axios.post settles and runTestOnAzure resolves
AzureResponds(response) ==
  /\ rtPc = "posted"
  /\ rtPc' = "resume"
  /\ azureResponse' = response
  /\ azureResult' = azureResultOf(response)
  /\ UNCHANGED <<rtArgs, azureRequest, rtOutcome, analysisVars, httpVars, uiVars>>

\* runTestCode resumes after its await and settles
RunTestResume ==
  /\ rtPc = "resume"
  /\ rtPc' = "done"
  /\ rtOutcome' = afterAzure(rtArgs.testCode, rtArgs.fileName,
                             sourceCodeParam(rtArgs), azureResult)
  /\ UNCHANGED <<rtArgs, azureRequest, azureResponse, azureResult, analysisVars,
               httpVars, uiVars>>

(***************************************************************************)
(* Inputs of analyzeLogicFiles                                             *)
(***************************************************************************)
NameCalc == <<"C","a","l","c",".","c","s">>
NameUtil == <<"U","t","i","l",".","c","s">>
NameDto == <<"D","t","o",".","c","s">>
NameErrorPage == <<"E","r","r","o","r","P","a","g","e",".","c","s">>
NameException == <<"A","p","p","E","X","C","E","P","T","I","O","N",".","c","s">>

ContentPlain == Str(<<"c","l","a","s","s"," ","A">>)
ContentErrorPage == Str(<<"/","/"," ","E","r","r","o","r"," ","P","a","g","e">>)
ContentExceptionPage ==
  Str(<<"E","X","C","E","P","T","I","O","N"," ","p","a","g","e","s">>)
\* mentions errors, but no "error page"
ContentErrors == Str(<<"e","r","r","o","r","s"," ","p","a","g","e">>)

File(path, content, classification) ==
  [path |-> path, content |-> content, classification |-> classification]

\* file records that exercise the exclusion heuristic
ExclusionFiles ==
  {File(n, c, k) :
     n \in {NameCalc, NameErrorPage, NameException},
     c \in {ContentPlain, ContentErrorPage, ContentExceptionPage, ContentErrors,
            Undefined},
     k \in {"logic", "boilerplate"}}

\* two analyzable logic files, an excluded one and a boilerplate one
AnalysisFiles ==
  {File(NameCalc, ContentPlain, "logic"),
   File(NameUtil, ContentErrors, "logic"),
   File(NameErrorPage, ContentPlain, "logic"),
   File(NameDto, ContentPlain, "boilerplate")}

FnAdd == <<"A","d","d">>
FnAddLower == <<"a","d","d">>
FnSub == <<"S","u","b">>

Payload(summary, expected, actual, missingCore, negative, legacy, coverage) ==
  [summary |-> summary,
   expectedFunctionalities |-> expected,
   actualFunctionalities |-> actual,
   missingCoreFunctionalities |-> missingCore,
   missingNegativeTestCases |-> negative,
   missingTestCases |-> legacy,
   coveragePercentage |-> coverage]

SummaryS == Str(<<"s">>)

Ok(body) == [ok |-> TRUE, body |-> body]
\* the model call rejected, or its content was not JSON
Failure == [ok |-> FALSE, message |-> "Failed to analyze logic file"]

\* model answers that differ in the functionality lists
ExpectedArrays ==
  {Undefined, Arr(<<FnAdd>>), Arr(<<FnAddLower>>), Arr(<<FnAdd, FnAdd>>),
   Arr(<<FnSub, FnAdd>>)}
ActualArrays ==
  {Undefined, Arr(<<FnAdd>>), Arr(<<FnAddLower>>), Arr(<<FnAdd, FnSub>>)}

FunctionalityResponses ==
  {Failure} \cup
  {Ok(Payload(SummaryS, e, a, Arr(<<>>), Arr(<<>>), Undefined, Undefined)) :
     e \in ExpectedArrays, a \in ActualArrays}

(***************************************************************************)
(* Specification: analyzeLogicFiles over model answers that differ in the  *)
(* functionality lists                                                     *)
(***************************************************************************)
InitFunctionality == InitAnalysis(AnalysisFiles) /\ RunIdle /\ HttpIdle /\ UiIdle

CompleteFunctionality ==
  \E i \in pending : \E r \in FunctionalityResponses : Complete(i, r)

NextFunctionality == Dispatch \/ CompleteFunctionality \/ Join

SpecFunctionality == InitFunctionality /\ [][NextFunctionality]_vars

(***************************************************************************)
(* What the properties below read off a finished call                      *)
(***************************************************************************)
\* analyzeLogicFiles returned the aggregate
Aggregated == pc = "done" /\ ret.success

\* the model call of logicFiles[i] was issued and answered / answered with a
\* payload / answered with a failure
Answered(i) == modelCalls[i] > 0 /\ responses[i] # NoResponse
Succeeded(i) == Answered(i) /\ responses[i].ok
Failed(i) == Answered(i) /\ ~responses[i].ok

LogicIndices == 1..Len(logicFiles)

\* the elements of a payload field that is an array
Elements(field) == IF isArray(field) THEN {field.v[k] : k \in 1..Len(field.v)} ELSE {}

(***************************************************************************)
(* C1 (SpecFunctionality)                                                  *)
(***************************************************************************)
\* a batch in which no call threw, the model call of at least one file failed
\* and that of at least one other file succeeded
PartialFailure ==
  /\ pc = "done"
  /\ \A i \in LogicIndices : ~analyzeLogicFileThrows(logicFiles[i].content, logicFiles[i].path)
  /\ \E i \in LogicIndices : Failed(i)
  /\ \E i \in LogicIndices : Succeeded(i)

\* C1: when the model call of at least one non-skipped file fails while others
\* succeed, analyzeLogicFiles returns (does not raise) an aggregate with
\* success = true that has an entry for every functionality a successful file
\* expects, and reports fileCount.analyzed < fileCount.total.
C1_PartialFailureReportsFewerAnalyzed ==
  PartialFailure =>
    /\ ret.success
    /\ \A i \in LogicIndices :
         Succeeded(i) =>
           \A f \in Elements(responses[i].body.expectedFunctionalities) :
             \E k \in 1..Len(ret.functionalityComparison) :
               ret.functionalityComparison[k].functionality = f
    /\ ret.fileCount.analyzed < ret.fileCount.total

(***************************************************************************)
(* C3 (SpecFunctionality)                                                  *)
(***************************************************************************)
\* every name some successful analysis expects
ExpectedNames ==
  UNION {Elements(responses[i].body.expectedFunctionalities) :
           i \in {j \in LogicIndices : Succeeded(j)}}

\* C3: the keys of functionalityComparison are exactly the union of
\* expectedFunctionalities over the successful analyses, and no key occurs in
\* two entries.
C3_ComparisonKeysAreTheUnion ==
  Aggregated =>
    LET table == ret.functionalityComparison IN
    /\ {table[k].functionality : k \in 1..Len(table)} = ExpectedNames
    /\ \A j, k \in 1..Len(table) :
         j # k => table[j].functionality # table[k].functionality

\* two successful files expect the same name, one of them twice, and a second
\* name is expected as well
C3_Witness ==
  /\ Aggregated
  /\ \E i, j \in LogicIndices :
       /\ i # j
       /\ Succeeded(i) /\ Succeeded(j)
       /\ responses[i].body.expectedFunctionalities = Arr(<<FnAdd, FnAdd>>)
       /\ responses[j].body.expectedFunctionalities = Arr(<<FnSub, FnAdd>>)
  /\ Len(ret.functionalityComparison) = 2

(***************************************************************************)
(* C4 (SpecFunctionality)                                                  *)
(***************************************************************************)
\* the successful analyses whose actualFunctionalities hold the name verbatim
Implementers(f) ==
  {i \in LogicIndices :
     Succeeded(i) /\ f \in Elements(responses[i].body.actualFunctionalities)}

\* C4: an entry is implemented iff its name appears verbatim in
\* actualFunctionalities of some successful analysis, and implementedIn lists
\* the file names of exactly those analyses (empty iff not implemented).
C4_ImplementedIffVerbatimInActual ==
  Aggregated =>
    \A k \in 1..Len(ret.functionalityComparison) :
      LET e == ret.functionalityComparison[k]
          who == Implementers(e.functionality)
      IN /\ e.implemented <=> (who # {})
         /\ Len(e.implementedIn) = Cardinality(who)
         /\ {e.implementedIn[m] : m \in 1..Len(e.implementedIn)} =
              {logicFiles[i].path : i \in who}
         /\ (e.implementedIn = <<>>) <=> ~e.implemented

\* "add" is expected and only "Add" is implemented: the entry for "add" is
\* missing, the entry for "Add" is implemented in one file
C4_Witness ==
  /\ Aggregated
  /\ \E j, k \in 1..Len(ret.functionalityComparison) :
       /\ ret.functionalityComparison[j].functionality = FnAddLower
       /\ ~ret.functionalityComparison[j].implemented
       /\ ret.functionalityComparison[k].functionality = FnAdd
       /\ ret.functionalityComparison[k].implemented
       /\ Len(ret.functionalityComparison[k].implementedIn) = 1

(***************************************************************************)
(* C9 (SpecFunctionality)                                                  *)
(***************************************************************************)
\* the indices whose model call was issued
Called == {i \in LogicIndices : modelCalls[i] > 0}

\* C9: all calls of a batch are in flight together; whatever the completion
\* order, entry i of fileAnalyses is the result of logic file i; the aggregate
\* is built after every call has completed.
C9_ResultsJoinedByIndex ==
  /\ (pc = "awaiting" /\ completed = <<>>) => pending = Called
  /\ Aggregated =>
       /\ pending = {}
       /\ Len(completed) = Cardinality(Called)
       /\ Len(ret.fileAnalyses) = Len(logicFiles)
       /\ \A i \in LogicIndices :
            LET a == ret.fileAnalyses[i] IN
            /\ a.fileName = logicFiles[i].path
            /\ a.skipped <=> (i \notin Called)
            /\ i \in Called =>
                 /\ a.success = responses[i].ok
                 /\ responses[i].ok => a.body = responses[i].body

\* the second call completed first, the two answers differ
C9_Witness ==
  /\ Aggregated
  /\ completed = <<2, 1>>
  /\ Succeeded(1) /\ Succeeded(2)
  /\ responses[1] # responses[2]
  /\ logicFiles[1].path # logicFiles[2].path

(***************************************************************************)
(* Specification: analyzeLogicFiles over model answers that differ in the  *)
(* reported coverage                                                       *)
(***************************************************************************)
\* a percentage the model wrote as text is no number
CoverageValues == {Undefined, Str(<<"7","5","%">>), Num(0), Num(33), Num(100)}

CoverageResponses ==
  {Failure} \cup
  {Ok(Payload(SummaryS, fn[1], fn[2], Arr(<<>>), Arr(<<>>), Undefined, c)) :
     fn \in {<<Arr(<<FnAdd>>), Arr(<<FnAdd>>)>>,
             <<Arr(<<FnAddLower, FnSub>>), Arr(<<FnAdd>>)>>,
             <<Undefined, Undefined>>},
     c \in CoverageValues}

InitCoverage == InitAnalysis(AnalysisFiles) /\ RunIdle /\ HttpIdle /\ UiIdle

CompleteCoverage ==
  \E i \in pending : \E r \in CoverageResponses : Complete(i, r)

NextCoverage == Dispatch \/ CompleteCoverage \/ Join

SpecCoverage == InitCoverage /\ [][NextCoverage]_vars

(***************************************************************************)
(* C2, C5 (SpecCoverage)                                                   *)
(***************************************************************************)
\* the successful analyses that report a number
NumericIndices ==
  {i \in LogicIndices : Succeeded(i) /\ isNumber(responses[i].body.coveragePercentage)}

RECURSIVE SumOver(_)
SumOver(indices) ==
  IF indices = {} THEN 0
  ELSE LET i == CHOOSE k \in indices : TRUE
       IN responses[i].body.coveragePercentage.v + SumOver(indices \ {i})

\* the integer nearest to num / den, the upper one of two
NearestInteger(num, den) ==
  CHOOSE k \in 0..100 : 2 * den * k - den <= 2 * num /\ 2 * num < 2 * den * k + den

ImplementedEntries ==
  {k \in 1..Len(ret.functionalityComparison) : ret.functionalityComparison[k].implemented}

\* the coverage the rule of C5 gives for the finished call
CoverageBeforeFloor ==
  IF NumericIndices # {}
  THEN NearestInteger(SumOver(NumericIndices), Cardinality(NumericIndices))
  ELSE IF Len(ret.functionalityComparison) = 0 THEN 0
  ELSE NearestInteger(100 * Cardinality(ImplementedEntries),
                      Len(ret.functionalityComparison))

\* C2: when the computed coverage is 0 and some entry of the comparison table
\* is implemented, the returned coveragePercentage is exactly 1.
C2_CoverageFloorIsOne ==
  (Aggregated /\ CoverageBeforeFloor = 0 /\ ImplementedEntries # {}) =>
    ret.coveragePercentage = 1

\* two successful files report 0, and one functionality is implemented
C2_Witness ==
  /\ Aggregated
  /\ Cardinality(NumericIndices) = 2
  /\ \A i \in NumericIndices : responses[i].body.coveragePercentage = Num(0)
  /\ ImplementedEntries # {}
  /\ ret.coveragePercentage = 1

\* C5: apart from the floor, the aggregate is the mean of the numeric per-file
\* values rounded to the nearest integer when there is one, else
\* round(100 * implemented / total), else 0; it is an integer in 0..100.
C5_CoverageIsRoundedMeanOrRatio ==
  Aggregated =>
    /\ ret.coveragePercentage \in 0..100
    /\ ~(CoverageBeforeFloor = 0 /\ ImplementedEntries # {}) =>
         ret.coveragePercentage = CoverageBeforeFloor

\* one file reports 33, the other reports no number and is ignored
C5_Witness ==
  /\ Aggregated
  /\ \E i, j \in LogicIndices :
       /\ Succeeded(i) /\ Succeeded(j)
       /\ responses[i].body.coveragePercentage = Num(33)
       /\ responses[j].body.coveragePercentage = Str(<<"7","5","%">>)
  /\ ret.coveragePercentage = 33

(***************************************************************************)
(* Specification: analyzeLogicFiles over model answers that differ in the  *)
(* missing negative test cases                                             *)
(***************************************************************************)
TestCase(description, criticality) ==
  [description |-> description, criticality |-> criticality]

TestCaseArrays ==
  {Arr(<<>>),
   Arr(<<TestCase("t1", "Low")>>),
   Arr(<<TestCase("t1", "High"), TestCase("t2", "High")>>),
   Arr(<<TestCase("t1", "Medium"), TestCase("t2", "Low"), TestCase("t3", "Medium")>>),
   Arr(<<TestCase("t1", "Low"), TestCase("t2", "High"),
         TestCase("t3", "Medium"), TestCase("t4", "High")>>)}

\* the field under its former name
LegacyTestCaseArrays == {Undefined, Arr(<<TestCase("t9", "Medium"), TestCase("t8", "High")>>)}

TestCaseResponses ==
  {Failure} \cup
  {Ok(Payload(SummaryS, Arr(<<FnAdd>>), Arr(<<FnAdd>>), Arr(<<>>), n, l, Undefined)) :
     n \in TestCaseArrays \cup {Undefined}, l \in LegacyTestCaseArrays}

InitTestCases == InitAnalysis(AnalysisFiles) /\ RunIdle /\ HttpIdle /\ UiIdle

CompleteTestCases ==
  \E i \in pending : \E r \in TestCaseResponses : Complete(i, r)

NextTestCases == Dispatch \/ CompleteTestCases \/ Join

SpecTestCases == InitTestCases /\ [][NextTestCases]_vars

(***************************************************************************)
(* C6 (SpecTestCases)                                                      *)
(***************************************************************************)
\* the missing negative test cases the model reported for logic file i (under
\* the current field name, else under the former one)
ReportedTestCases(i) ==
  LET body == responses[i].body IN
  IF isArray(body.missingNegativeTestCases) THEN body.missingNegativeTestCases.v
  ELSE IF isArray(body.missingTestCases) THEN body.missingTestCases.v
  ELSE <<>>

\* the test cases of the successful analyses from file i on, in input order,
\* each with the name of its file
RECURSIVE InputTestCases(_)
InputTestCases(i) ==
  IF i > Len(logicFiles) THEN <<>>
  ELSE (IF Succeeded(i)
        THEN [k \in 1..Len(ReportedTestCases(i)) |->
                [description |-> ReportedTestCases(i)[k].description,
                 criticality |-> ReportedTestCases(i)[k].criticality,
                 fileName |-> logicFiles[i].path]]
        ELSE <<>>) \o InputTestCases(i + 1)

OfCriticality(cases, c) == SelectSeq(cases, LAMBDA x : x.criticality = c)

\* C6: criticalTestCases holds every missing negative test case of the
\* successful analyses, tagged with its file name: first those of criticality
\* High, then Medium, then Low, each group in input order.
C6_CriticalTestCasesStableByCriticality ==
  Aggregated =>
    ret.criticalTestCases =
      OfCriticality(InputTestCases(1), "High") \o
      OfCriticality(InputTestCases(1), "Medium") \o
      OfCriticality(InputTestCases(1), "Low")

\* the input [Low, High, Medium, High] of one file, after the test cases of
\* another file: its two High entries come out in input order
C6_Witness ==
  /\ Aggregated
  /\ Len(logicFiles) = 2
  /\ Succeeded(1) /\ Succeeded(2)
  /\ [k \in 1..Len(ReportedTestCases(1)) |-> ReportedTestCases(1)[k].criticality]
       = <<"Medium", "Low", "Medium">>
  /\ [k \in 1..Len(ReportedTestCases(2)) |-> ReportedTestCases(2)[k].criticality]
       = <<"Low", "High", "Medium", "High">>
  /\ [k \in 1..Len(ret.criticalTestCases) |-> ret.criticalTestCases[k].description]
       = <<"t2", "t4", "t1", "t3", "t3", "t2", "t1">>

(***************************************************************************)
(* Specification: analyzeLogicFiles over file records that exercise the    *)
(* exclusion heuristic                                                     *)
(***************************************************************************)
ExclusionResponses ==
  {Failure,
   Ok(Payload(SummaryS, Arr(<<FnAdd>>), Arr(<<FnAdd>>), Arr(<<>>), Arr(<<>>),
              Undefined, Num(100)))}

InitExclusion == InitAnalysis(ExclusionFiles) /\ RunIdle /\ HttpIdle /\ UiIdle

CompleteExclusion ==
  \E i \in pending : \E r \in ExclusionResponses : Complete(i, r)

NextExclusion == Dispatch \/ CompleteExclusion \/ Join

SpecExclusion == InitExclusion /\ [][NextExclusion]_vars

(***************************************************************************)
(* C7, C8 (SpecExclusion)                                                  *)
(***************************************************************************)
\* the same letter, in either case
SameLetter(a, b) ==
  \/ a = b
  \/ \E n \in 1..Len(UpperChars) : {a, b} = {UpperChars[n], LowerChars[n]}

\* text holds word somewhere, letter case ignored
ContainsIgnoringCase(text, word) ==
  \E i \in 0..(Len(text) - Len(word)) :
    \A k \in 1..Len(word) : SameLetter(text[i + k], word[k])

NameMatches(f) ==
  \/ ContainsIgnoringCase(f.path, <<"e","r","r","o","r">>)
  \/ ContainsIgnoringCase(f.path, <<"e","x","c","e","p","t","i","o","n">>)

ContentMatches(f) ==
  /\ isString(f.content)
  /\ \/ ContainsIgnoringCase(f.content.v, <<"e","r","r","o","r"," ","p","a","g","e">>)
     \/ ContainsIgnoringCase(f.content.v, <<"e","x","c","e","p","t","i","o","n"," ","p","a","g","e">>)

\* C7: a logic file whose name holds "error" or "exception", or whose content
\* holds "error page" or "exception page" (letter case ignored), gets the
\* result skipped = true and no model call, whatever its content; a file with
\* a text content that matches none of the four gets exactly one model call
\* and is never marked skipped.
C7_ExclusionRule ==
  pc # "start" =>
    \A i \in LogicIndices :
      LET f == logicFiles[i] IN
      /\ (NameMatches(f) \/ ContentMatches(f)) =>
           /\ modelCalls[i] = 0
           /\ analysisResults[i] # Pending
           /\ analysisResults[i].skipped
           /\ analysisResults[i].fileName = f.path
      /\ (isString(f.content) /\ ~NameMatches(f) /\ ~ContentMatches(f)) =>
           /\ modelCalls[i] = 1
           /\ analysisResults[i] # Pending => ~analysisResults[i].skipped

\* ErrorPage.cs, here without any content, is skipped unasked; the file next
\* to it only mentions errors and is analyzed
C7_Witness ==
  /\ Aggregated
  /\ Len(logicFiles) = 2
  /\ logicFiles[1].path = NameErrorPage
  /\ logicFiles[1].content = Undefined
  /\ ret.fileAnalyses[1].skipped
  /\ modelCalls[1] = 0
  /\ logicFiles[2].path = NameCalc
  /\ logicFiles[2].content = ContentErrors
  /\ ~ret.fileAnalyses[2].skipped
  /\ modelCalls[2] = 1

\* no record of the request is classified 'logic'
NoLogicFile == \A k \in 1..Len(files) : files[k].classification # "logic"

\* every logic file of the request matches the exclusion rule (and there is one)
AllLogicFilesExcluded ==
  /\ ~NoLogicFile
  /\ \A k \in 1..Len(files) :
       files[k].classification = "logic" => (NameMatches(files[k]) \/ ContentMatches(files[k]))

\* C8: with no logic file, or with every logic file excluded, analyzeLogicFiles
\* returns success = false with an error and nothing else, and no model call
\* is made.
C8_NoAnalyzableFilesFails ==
  (pc = "done" /\ (NoLogicFile \/ AllLogicFilesExcluded)) =>
    /\ ~ret.success
    /\ DOMAIN ret = {"success", "error"}
    /\ \A i \in LogicIndices : modelCalls[i] = 0
    /\ NoLogicFile => ret.error = "No logic files found for analysis"
    /\ AllLogicFilesExcluded =>
         ret.error = "All logic files were excluded as error handling files"

\* two logic files, one excluded by its name and one by its content
C8_Witness ==
  /\ pc = "done"
  /\ Len(files) = 2
  /\ files[1].classification = "logic" /\ files[2].classification = "logic"
  /\ NameMatches(files[1]) /\ ~ContentMatches(files[1])
  /\ ~NameMatches(files[2]) /\ ContentMatches(files[2])
  /\ ret = failureResult("All logic files were excluded as error handling files")

(***************************************************************************)
(* Specification: one call of runTestCode                                  *)
(***************************************************************************)
RunTestCodes == {Str(<<"u","s","i","n","g"," ","S","y","s","t","e","m",";","\n","c","l","a","s","s"," ","C","a","l","c","T","e","s","t","s"," ","{"," ","}">>), Undefined}
RunFileNames == {Str(<<"C","a","l","c",".","c","s">>), Str(<<"s","r","c","/","U","t","i","l",".","c","s">>), Undefined}
RunSourceCodes ==
  {Str(<<"c","l","a","s","s"," ","C","a","l","c"," ","{"," ","i","n","t"," ","x",";"," ","}">>),
   Str(<<"c","l","a","s","s"," ","U","t","i","l"," ","{"," ","}">>),
   Str(<<"n","a","m","e","s","p","a","c","e"," ","A","p","p"," ","{","\n","c","l","a","s","s"," ","C","a","l","c"," ","{"," ","}","\n","}","\n">>), Str(<<"/","/"," ","e","m","p","t","y">>), Undefined, Null}

RunArgs ==
  [testCode : RunTestCodes, fileName : RunFileNames, sourceCode : RunSourceCodes]

\* a response body of the sandbox
SandboxData(success, details) ==
  [t |-> "object", success |-> success, error |-> Undefined,
   passed |-> Num(1), failed |-> Num(0), skipped |-> Num(0), total |-> Num(1),
   duration |-> Str(<<"1","2","m","s">>), details |-> details]

SandboxDetails ==
  {Undefined,
   Str(<<"n","o","n","e">>),
   Arr(<<>>),
   Arr(<<[t |-> "object", name |-> Str(<<>>), output |-> Str(<<"o","k">>)], Null>>),
   Arr(<<[t |-> "object", name |-> Str(<<"T","e","s","t","M","e","t","h","o","d">>), result |-> Str(<<"P","a","s","s","e","d">>),
          duration |-> Undefined, error |-> Undefined],
         Str(<<"T","e","s","t","M","e","t","h","o","d"," ","P","A","S","S","E","D">>)>>)}

\* how axios.post settles: a transport error or a status outside 2xx (axios
\* throws), a response without a body, or a response with a body
SandboxResponses ==
  {[t |-> "error", message |-> <<"N","e","t","w","o","r","k"," ","E","r","r","o","r">>],
   [t |-> "error", message |-> <<"R","e","q","u","e","s","t"," ","f","a","i","l","e","d"," ","w","i","t","h"," ","s","t","a","t","u","s"," ","c","o","d","e"," ","5","0","0">>],
   [t |-> "empty"],
   [t |-> "data", data |-> [t |-> "object", success |-> Bool(TRUE)]],
   [t |-> "data", data |-> [t |-> "object", success |-> Bool(FALSE),
                            error |-> Str(<<"C","S","1","0","0","2">>)]],
   [t |-> "data", data |-> Str(<<"O","K">>)]} \cup
  {[t |-> "data", data |-> SandboxData(s, d)] :
     s \in {Bool(TRUE), Bool(FALSE), Undefined}, d \in SandboxDetails}

InitRunTest == InitRun(RunArgs) /\ AnalysisIdle /\ HttpIdle /\ UiIdle

AzureSettles == \E r \in SandboxResponses : AzureResponds(r)

NextRunTest == RunTestStart \/ AzureSettles \/ RunTestResume

SpecRunTest == InitRunTest /\ [][NextRunTest]_vars

(***************************************************************************)
(* C10 (SpecRunTest)                                                       *)
(***************************************************************************)
\* runTestCode settled without an online result
RemoteExecutionFailed ==
  /\ rtPc = "done"
  /\ ~(azureResult # NoResult /\ truthy(property(azureResult, "success")))

\* C10: for every testCode, fileName and sourceCode, missing and non-string
\* values included, when the remote execution fails runTestCode resolves to the
\* fallback object (all counts 0, every detail Pending with the four fields,
\* the instructions and the project text); it never rejects.
C10_FallbackNeverRaises ==
  RemoteExecutionFailed =>
    /\ rtOutcome.t = "resolved"
    /\ LET r == rtOutcome.value IN
       /\ r.passed = Num(0) /\ r.failed = Num(0)
       /\ r.skipped = Num(0) /\ r.total = Num(0)
       /\ \A k \in 1..Len(r.details.v) :
            /\ DOMAIN r.details.v[k] = {"name", "result", "duration", "error"}
            /\ r.details.v[k].result = Str(<<"P","e","n","d","i","n","g">>)
       /\ {"instructions", "projectCode"} \subseteq DOMAIN r

\* the part of C10 the code keeps: with three strings as arguments, a failed
\* remote execution resolves to the fallback object
RunTestFallbackOnStrings ==
  (/\ RemoteExecutionFailed
   /\ isString(rtArgs.testCode)
   /\ isString(rtArgs.fileName)
   /\ isString(sourceCodeParam(rtArgs))) =>
    /\ rtOutcome.t = "resolved"
    /\ rtOutcome.value.localExecution = Bool(TRUE)
    /\ rtOutcome.value.total = Num(0)
    /\ Len(rtOutcome.value.details.v) = PendingDetailCount


(***************************************************************************)
(* testGenerator.js : generateTestCode, the post-processing of the model's *)
(* completion                                                              *)
(***************************************************************************)
\* the character U+0060 of the markdown code fence
Backtick == "U+0060"

Fence == <<Backtick, Backtick, Backtick>>

\* the alternatives of the code-fence pattern of generateTestCode that start
\* with ^ (csharp, cs, c# and the bare fence, each with its line feed), in
\* the order the pattern lists them
FenceOpeners ==
  <<<<Backtick,Backtick,Backtick,"c","s","h","a","r","p","\n">>, <<Backtick,Backtick,Backtick,"c","s","\n">>, <<Backtick,Backtick,Backtick,"c","#","\n">>, <<Backtick,Backtick,Backtick,"\n">>>>

\* ^ under the m flag: at the start of the text or behind a line break
atLineStart(s, i) == i = 1 \/ s[i - 1] \in LineBreaks

\* $ under the m flag: at the end of the text or in front of a line break
atLineEnd(s, i) == i > Len(s) \/ s[i] \in LineBreaks

startsWithAt(s, i, chars) ==
  /\ i + Len(chars) - 1 <= Len(s)
  /\ SubSeq(s, i, i + Len(chars) - 1) = chars

\* index of the last character of the match of the code-fence pattern at i,
\* or -1: the first alternative that matches is taken
codeFenceEnd(s, i) ==
  LET openers == {k \in 1..Len(FenceOpeners) :
                    atLineStart(s, i) /\ startsWithAt(s, i, FenceOpeners[k])} IN
  IF openers # {}
  THEN i + Len(FenceOpeners[CHOOSE k \in openers : \A m \in openers : k <= m]) - 1
  ELSE IF startsWithAt(s, i, Fence) /\ atLineEnd(s, i + Len(Fence))
  THEN i + Len(Fence) - 1
  ELSE -1

\* testCode.replace(<the code-fence pattern>, ''), flags g and m
RECURSIVE removeCodeFences(_, _)
removeCodeFences(s, i) ==
  IF i > Len(s) THEN <<>>
  ELSE LET e == codeFenceEnd(s, i) IN
       IF e >= i THEN removeCodeFences(s, e + 1)
       ELSE <<s[i]>> \o removeCodeFences(s, i + 1)

\* index of the last character of the match of
\* /namespace\s+[\w\.]+\s*\{[\s\S]*?\}/ at i, or -1: the lazy [\s\S]*? stops
\* at the first closing brace behind the opening one
namespaceBlockEnd(s, i) ==
  LET open == matchEnd(s, i, NamespaceOpenPattern) IN
  IF open < i THEN -1
  ELSE LET closes == {k \in (open + 1)..Len(s) : s[k] = "}"} IN
       IF closes = {} THEN -1
       ELSE CHOOSE k \in closes : \A m \in closes : k <= m

\* testCode.replace(/namespace\s+[\w\.]+\s*\{[\s\S]*?\}/g, '')
RECURSIVE removeNamespaceBlocks(_, _)
removeNamespaceBlocks(s, i) ==
  IF i > Len(s) THEN <<>>
  ELSE LET e == namespaceBlockEnd(s, i) IN
       IF e >= i THEN removeNamespaceBlocks(s, e + 1)
       ELSE <<s[i]>> \o removeNamespaceBlocks(s, i + 1)

\* index of the last character of the match of /\[\w+(?:\(.*?\))?\]\s*/ at i,
\* or -1.  \w+ is followed by ( or ] and gives nothing back; the lazy .*?
\* of the optional group grows, over characters that are not line breaks,
\* to the first ) that ] follows.
attributeEnd(s, i) ==
  IF s[i] # "[" THEN -1
  ELSE LET w == runEnd(s, i + 1, WordChars) IN
       IF w < i + 1 \/ w + 1 > Len(s) THEN -1
       ELSE IF s[w + 1] = "]" THEN runEnd(s, w + 2, SpaceChars)
       ELSE IF s[w + 1] # "(" THEN -1
       ELSE LET closers ==
                  {k \in (w + 2)..(Len(s) - 1) :
                     /\ s[k] = ")"
                     /\ s[k + 1] = "]"
                     /\ \A m \in (w + 2)..(k - 1) : s[m] \notin LineBreaks}
            IN IF closers = {} THEN -1
               ELSE runEnd(s, (CHOOSE k \in closers : \A m \in closers : k <= m) + 2,
                           SpaceChars)

\* testCode.replace(/\[\w+(?:\(.*?\))?\]\s*/g, '')
RECURSIVE removeAttributes(_, _)
removeAttributes(s, i) ==
  IF i > Len(s) THEN <<>>
  ELSE LET e == attributeEnd(s, i) IN
       IF e >= i THEN removeAttributes(s, e + 1)
       ELSE <<s[i]>> \o removeAttributes(s, i + 1)

\* the four replacements and the trim generateTestCode applies to the
\* completion, in the order of the code
generateTestCodeCleanup(content) ==
  LET noFences == removeCodeFences(content, 1)
      noNamespaces == removeNamespaceBlocks(noFences, 1)
      noUsings == removeAll(noNamespaces, 1, UsingPattern)
      noAttributes == removeAttributes(noUsings, 1)
  IN trim(noAttributes)

\* how the promise of generateTestCode settles once the model call has:
\* a failed call, and a completion whose content is not a string (replace is
\* a TypeError), are rethrown from the catch block
generateTestCode(completion) ==
  IF completion.t = "error" \/ ~isString(completion.content)
  THEN Rejected("Failed to generate test code")
  ELSE Resolved(generateTestCodeCleanup(completion.content.v))

(***************************************************************************)
(* server : POST /api/generate-test                                        *)
(***************************************************************************)
\* a request has arrived at its route handler
InitHttp(requestSet) ==
  /\ request \in requestSet
  /\ httpPc = "received"
  /\ upstream = <<>>
  /\ reply = NoReply

\* res.json(body), after res.status(status) when the status is not 200
Reply(status, body) == [t |-> "reply", status |-> status, body |-> body]

\* the handler up to its await of generateTestCode(...), and generateTestCode up to
\* its model call: the body is not validated
GenerateTestRoute ==
  /\ httpPc = "received"
  /\ request.route = "generate-test"
  /\ upstream' = Append(upstream, [service |-> "openai",
                                   fileName |-> request.body.fileName,
                                   fileContent |-> request.body.fileContent])
  /\ httpPc' = "awaitingTestCode"
  /\ UNCHANGED <<request, reply, analysisVars, runVars, uiVars>>

\* the model call settles, generateTestCode settles and the handler replies
GenerateTestSettles(completion) ==
  /\ httpPc = "awaitingTestCode"
  /\ request.route = "generate-test"
  /\ LET outcome == generateTestCode(completion) IN
     reply' = IF outcome.t = "resolved"
              THEN Reply(200, [success |-> TRUE, testCode |-> outcome.value])
              ELSE Reply(500, [success |-> FALSE, error |-> outcome.error])
  /\ httpPc' = "done"
  /\ UNCHANGED <<request, upstream, analysisVars, runVars, uiVars>>

(***************************************************************************)
(* Specification: one request to POST /api/generate-test                   *)
(***************************************************************************)
\* the longest completion, in fragments
MaxFragments == 3

\* pieces of C# and of markdown the completions are built from
Fragments ==
  {<<"v","[">>, <<"[","i","]">>, <<"i">>, <<"]">>, <<"[","T","(","1",")","]"," ">>, <<"u","s","i","n","g"," ">>, <<"A",";">>,
   <<Backtick,Backtick,Backtick>>, <<"\n">>, <<"n","a","m","e","s","p","a","c","e"," ","N"," ","{">>, <<"}">>}

RECURSIVE concat(_)
concat(pieces) ==
  IF Len(pieces) = 0 THEN <<>> ELSE Head(pieces) \o concat(Tail(pieces))

CompletionTexts ==
  {concat(pieces) : pieces \in UNION {[1..n -> Fragments] : n \in 0..MaxFragments}}

\* how the model call settles: an error, a completion without content, or
\* a completion with a text
Completions ==
  {[t |-> "error"], [t |-> "completion", content |-> Null]} \cup
  {[t |-> "completion", content |-> Str(text)] : text \in CompletionTexts}

GenerateTestRequests ==
  {[route |-> "generate-test",
    body |-> [fileContent |-> Str(<<"c","l","a","s","s"," ","C","a","l","c"," ","{"," ","}">>), fileName |-> Str(NameCalc)]]}

InitGenerateTest ==
  InitHttp(GenerateTestRequests) /\ AnalysisIdle /\ RunIdle /\ UiIdle

GenerateTestCompletes == \E c \in Completions : GenerateTestSettles(c)

NextGenerateTest == GenerateTestRoute \/ GenerateTestCompletes

SpecGenerateTest == InitGenerateTest /\ [][NextGenerateTest]_vars

(***************************************************************************)
(* C11 (SpecGenerateTest)                                                  *)
(***************************************************************************)
\* the handler has replied with generated test code
TestCodeReturned ==
  /\ request.route = "generate-test"
  /\ httpPc = "done"
  /\ reply.status = 200

\* C11: the cleanup of generated test text is idempotent: applied to test
\* code that generateTestCode has already cleaned, it returns the identical
\* text.
C11_CleanupIdempotent ==
  TestCodeReturned =>
    generateTestCodeCleanup(reply.body.testCode) = reply.body.testCode


(***************************************************************************)
(* server : POST /api/analyze-logic                                        *)
(***************************************************************************)
\* only a value that is not an array is refused
filesRejectedUnlessArray(value) == ~truthy(value) \/ ~isArray(value)

\* !files || !Array.isArray(files) || files.length === 0
filesRejected(value) ==
  ~truthy(value) \/ ~isArray(value) \/ Len(value.v) = 0

NoFilesProvided == <<"N","o"," ","f","i","l","e","s"," ","p","r","o","v","i","d","e","d"," ","f","o","r"," ","a","n","a","l","y","s","i","s">>

\* the handler up to its await of analyzeLogicFiles(files): the 400 reply, or
\* the call of analyzeLogicFiles
AnalyzeLogicRoute ==
  /\ httpPc = "received"
  /\ request.route = "analyze-logic"
  /\ IF filesRejected(request.body.files)
     THEN /\ reply' = Reply(400, [success |-> FALSE, error |-> NoFilesProvided])
          /\ httpPc' = "done"
          /\ UNCHANGED <<upstream, analysisVars>>
     ELSE /\ upstream' = Append(upstream, [service |-> "analyzeLogicFiles",
                                           files |-> request.body.files.v])
          /\ files' = request.body.files.v
          /\ pc' = "start"
          /\ httpPc' = "awaitingAnalysis"
          /\ UNCHANGED <<reply, logicFiles, analysisResults, pending, modelCalls,
                         responses, completed, ret>>
  /\ UNCHANGED <<request, runVars, uiVars>>

\* analyzeLogicFiles has returned: the handler wraps what it returned
AnalyzeLogicReplies ==
  /\ httpPc = "awaitingAnalysis"
  /\ request.route = "analyze-logic"
  /\ pc = "done"
  /\ reply' = Reply(200, [success |-> TRUE, results |-> ret])
  /\ httpPc' = "done"
  /\ UNCHANGED <<request, upstream, analysisVars, runVars, uiVars>>

(***************************************************************************)
(* Specification: one request to POST /api/analyze-logic                   *)
(***************************************************************************)
\* the file records of the requests: the four of AnalysisFiles and a logic
\* file that came without content
RouteFiles == AnalysisFiles \cup {File(NameUtil, Undefined, "logic")}

\* req.body.files: missing, null, not arrays, the empty array, and arrays of
\* file records
RequestFiles ==
  {Undefined, Null, Str(NameCalc), Num(0), Num(2)} \cup
  {Arr(batch) : batch \in Batches(RouteFiles)}

AnalyzeLogicRequests ==
  {[route |-> "analyze-logic", body |-> [files |-> f]] : f \in RequestFiles}

InitAnalyzeLogic ==
  InitHttp(AnalyzeLogicRequests) /\ AnalysisIdle /\ RunIdle /\ UiIdle

CompleteAnalyzeLogic ==
  \E i \in 1..MaxFiles, response \in ExclusionResponses : Complete(i, response)

NextAnalyzeLogic ==
  \/ AnalyzeLogicRoute
  \/ Dispatch
  \/ CompleteAnalyzeLogic
  \/ Join
  \/ AnalyzeLogicReplies

SpecAnalyzeLogic == InitAnalyzeLogic /\ [][NextAnalyzeLogic]_vars

(***************************************************************************)
(* C12, C14 (SpecAnalyzeLogic)                                             *)
(***************************************************************************)
\* the handler of the logic-analysis endpoint has replied
AnalyzeLogicReplied ==
  /\ request.route = "analyze-logic"
  /\ httpPc = "done"

\* analyzeLogicFiles was called and returned a failure
AggregationFailed ==
  /\ pc = "done"
  /\ ret.success = FALSE

\* C12: when the aggregation fails (no logic files, all logic files excluded,
\* an internal error of analyzeLogicFiles) the reply of the logic-analysis
\* endpoint has top-level success=false with an error; top-level success=true
\* comes only with a successful aggregate.
C12_BatchFailureIsTopLevel ==
  AnalyzeLogicReplied =>
    /\ AggregationFailed =>
         /\ reply.body.success = FALSE
         /\ "error" \in DOMAIN reply.body
    /\ reply.body.success = TRUE => reply.body.results.success = TRUE

\* the calls of analyzeLogicFiles the handler has made
AnalyzeLogicInvocations ==
  Cardinality({k \in 1..Len(upstream) : upstream[k].service = "analyzeLogicFiles"})

\* req.body.files is an array with at least one element
NonEmptyArrayOfFiles ==
  /\ request.body.files.t = "array"
  /\ request.body.files.v # <<>>

\* C14: the logic-analysis endpoint replies 400 with success=false and never
\* calls analyzeLogicFiles (so no model call is made) when files is missing,
\* not an array or the empty array; for a non-empty array it calls
\* analyzeLogicFiles exactly once.
C14_FilesValidatedBeforeAnalysis ==
  request.route = "analyze-logic" =>
    IF NonEmptyArrayOfFiles
    THEN /\ AnalyzeLogicInvocations <= 1
         /\ httpPc # "received" => AnalyzeLogicInvocations = 1
         /\ httpPc = "done" => reply.status # 400
    ELSE /\ AnalyzeLogicInvocations = 0
         /\ pc = "idle"
         /\ modelCalls = <<>>
         /\ httpPc = "done" =>
              /\ reply.status = 400
              /\ reply.body.success = FALSE

\* the empty array was refused with 400 and analyzeLogicFiles was not called
C14_Witness ==
  /\ AnalyzeLogicReplied
  /\ request.body.files = Arr(<<>>)
  /\ reply.status = 400
  /\ reply.body.success = FALSE
  /\ AnalyzeLogicInvocations = 0


(***************************************************************************)
(* server : POST /api/repository                                           *)
(***************************************************************************)
\* String.prototype.split with a one-character separator
RECURSIVE split(_, _)
split(s, separator) ==
  LET at == {i \in 1..Len(s) : s[i] = separator} IN
  IF at = {} THEN <<s>>
  ELSE LET i == CHOOSE k \in at : \A m \in at : k <= m IN
       <<SubSeq(s, 1, i - 1)>> \o split(SubSeq(s, i + 1, Len(s)), separator)

\* urlParts[urlParts.length - back]: undefined in front of the first part
partFromEnd(urlParts, back) ==
  IF Len(urlParts) >= back THEN Str(urlParts[Len(urlParts) - back + 1])
  ELSE Undefined

\* the path holds the suffix anywhere
containsSuffix(s, suffix) == includes(s, suffix)

\* String.prototype.endsWith
endsWith(s, suffix) ==
  /\ Len(s) >= Len(suffix)
  /\ SubSeq(s, Len(s) - Len(suffix) + 1, Len(s)) = suffix

Blob == <<"b","l","o","b">>

\* file.path.endsWith('.cs') && file.type === 'blob'
isCsFile(file) == endsWith(file.path.v, DotCs) /\ file.type = Str(Blob)

\* response.data.tree.filter(...)
csFiles(tree) == SelectSeq(tree, isCsFile)

\* reading .path of an entry, or .endsWith of a path, that is not there
treeFilterThrows(data) ==
  \/ ~isArray(data.tree)
  \/ \E k \in 1..Len(data.tree.v) : ~isString(data.tree.v[k].path)

\* res.status(500).json({ success: false, error: error.message })
ServerError(message) == Reply(500, [success |-> FALSE, error |-> message])

\* a call to an outside service that has not settled yet
Unanswered == [t |-> "unanswered"]

\* the handler up to its first await: repoUrl.split is a TypeError on a
\* repoUrl that is not a string; pat goes into the header as it is
RepositoryRoute ==
  /\ httpPc = "received"
  /\ request.route = "repository"
  /\ IF ~isString(request.body.repoUrl)
     THEN /\ reply' = ServerError("TypeError")
          /\ httpPc' = "done"
          /\ UNCHANGED upstream
     ELSE LET urlParts == split(request.body.repoUrl.v, "/") IN
          /\ upstream' = Append(upstream,
               [service |-> "github", resource |-> "repos",
                owner |-> partFromEnd(urlParts, 2), repo |-> partFromEnd(urlParts, 1),
                token |-> request.body.pat, response |-> Unanswered])
          /\ httpPc' = "awaitingRepoInfo"
          /\ UNCHANGED reply
  /\ UNCHANGED <<request, analysisVars, runVars, uiVars>>

\* the repository lookup settles: the handler asks for the recursive tree of
\* the branch the lookup named
RepoInfoSettles(response) ==
  /\ httpPc = "awaitingRepoInfo"
  /\ request.route = "repository"
  /\ LET answered == [upstream EXCEPT ![1].response = response] IN
     IF response.t = "error"
     THEN /\ reply' = ServerError(response.message)
          /\ httpPc' = "done"
          /\ upstream' = answered
     ELSE /\ upstream' = Append(answered,
               [service |-> "github", resource |-> "git/trees",
                owner |-> upstream[1].owner, repo |-> upstream[1].repo,
                token |-> request.body.pat,
                branch |-> response.data.default_branch,
                response |-> Unanswered])
          /\ httpPc' = "awaitingTree"
          /\ UNCHANGED reply
  /\ UNCHANGED <<request, analysisVars, runVars, uiVars>>

\* the tree request settles and the handler replies
TreeSettles(response) ==
  /\ httpPc = "awaitingTree"
  /\ request.route = "repository"
  /\ upstream' = [upstream EXCEPT ![2].response = response]
  /\ reply' = IF response.t = "error" THEN ServerError(response.message)
              ELSE IF treeFilterThrows(response.data) THEN ServerError("TypeError")
              ELSE Reply(200, [success |-> TRUE, files |-> csFiles(response.data.tree.v)])
  /\ httpPc' = "done"
  /\ UNCHANGED <<request, analysisVars, runVars, uiVars>>

(***************************************************************************)
(* server : POST /api/classify                                             *)
(***************************************************************************)
\* the verdict is searched as it is
isLogicCaseSensitive(classification) == includes(classification, <<"l","o","g","i","c">>)

\* classification.toLowerCase().includes('logic')
isLogic(classification) == includes(toLowerCase(classification), <<"l","o","g","i","c">>)

\* the handler up to its await of the model call: the body is not validated
ClassifyRoute ==
  /\ httpPc = "received"
  /\ request.route = "classify"
  /\ upstream' = Append(upstream, [service |-> "openai",
                                   content |-> request.body.fileContent,
                                   response |-> Unanswered])
  /\ httpPc' = "awaitingVerdict"
  /\ UNCHANGED <<request, reply, analysisVars, runVars, uiVars>>

\* the model call settles and the handler replies; toLowerCase is a TypeError
\* on a content that is not a string
ClassifySettles(completion) ==
  /\ httpPc = "awaitingVerdict"
  /\ request.route = "classify"
  /\ upstream' = [upstream EXCEPT ![1].response = completion]
  /\ reply' = IF completion.t = "error" THEN ServerError(completion.message)
              ELSE IF ~isString(completion.content) THEN ServerError("TypeError")
              ELSE Reply(200,
                     [success |-> TRUE,
                      classification |->
                        IF isLogic(completion.content.v) THEN "logic" ELSE "boilerplate",
                      analysis |-> completion.content])
  /\ httpPc' = "done"
  /\ UNCHANGED <<request, analysisVars, runVars, uiVars>>

(***************************************************************************)
(* Specification: one request to POST /api/repository or POST /api/classify*)
(***************************************************************************)
\* the longest tree listing, in entries
MaxTree == 2

RepoUrls == {Str(<<"h","t","t","p","s",":","/","/","g","i","t","h","u","b",".","c","o","m","/","u","s","e","r","n","a","m","e","/","r","e","p","o">>), Str(<<"r","e","p","o">>), Undefined}
Tokens == {Str(<<"g","h","p","_","t","o","k","e","n">>), Undefined}

RepositoryRequests ==
  {[route |-> "repository", body |-> [repoUrl |-> u, pat |-> p]] :
     u \in RepoUrls, p \in Tokens}

ClassifyRequests ==
  {[route |-> "classify", body |-> [fileContent |-> c]] :
     c \in {Str(<<"p","u","b","l","i","c"," ","c","l","a","s","s"," ","B","u","s","i","n","e","s","s","L","o","g","i","c"," ","{"," ","}">>), Str(<<>>), Undefined}}

RequestFailed401 ==
  [t |-> "error", message |-> "Request failed with status code 401"]

RepoInfoResponses ==
  {RequestFailed401,
   [t |-> "data", data |-> [default_branch |-> Str(<<"m","a","i","n">>)]],
   [t |-> "data", data |-> [default_branch |-> Str(<<"d","e","v","e","l","o","p">>)]]}

TreeEntry(path, type) == [path |-> path, type |-> Str(type)]

TreeEntries ==
  {TreeEntry(Str(<<"s","r","c","/","C","a","l","c",".","c","s">>), Blob),
   TreeEntry(Str(<<"s","r","c","/","U","t","i","l",".","c","s">>), Blob),
   TreeEntry(Str(<<"A","p","p",".","c","s","p","r","o","j">>), Blob),
   TreeEntry(Str(<<"L","i","b",".","c","s">>), <<"t","r","e","e">>),
   TreeEntry(Str(<<"R","E","A","D","M","E",".","m","d">>), Blob),
   TreeEntry(Undefined, Blob)}

TreeResponses ==
  {RequestFailed401, [t |-> "data", data |-> [tree |-> Undefined]]} \cup
  {[t |-> "data", data |-> [tree |-> Arr(entries)]] :
     entries \in UNION {[1..n -> TreeEntries] : n \in 0..MaxTree}}

Verdicts ==
  {Str(<<"l","o","g","i","c">>), Str(<<"T","h","i","s"," ","i","s"," ","L","O","G","I","C"," ","c","o","d","e">>), Str(<<"B","u","s","i","n","e","s","s"," ","L","o","g","i","c",".">>),
   Str(<<"b","o","i","l","e","r","p","l","a","t","e">>), Str(<<"l","o","g"," ","i","c">>), Str(<<>>), Null}

ClassifyCompletions ==
  {[t |-> "error", message |-> "Request failed with status code 400"]} \cup
  {[t |-> "completion", content |-> v] : v \in Verdicts}

InitServer ==
  /\ InitHttp(RepositoryRequests \cup ClassifyRequests)
  /\ AnalysisIdle
  /\ RunIdle
  /\ UiIdle

RepoInfoResponds == \E r \in RepoInfoResponses : RepoInfoSettles(r)

TreeResponds == \E r \in TreeResponses : TreeSettles(r)

ClassifyCompletes == \E c \in ClassifyCompletions : ClassifySettles(c)

NextServer ==
  \/ RepositoryRoute
  \/ RepoInfoResponds
  \/ TreeResponds
  \/ ClassifyRoute
  \/ ClassifyCompletes

SpecServer == InitServer /\ [][NextServer]_vars


(***************************************************************************)
(* C13, C18, C19 (SpecServer)                                              *)
(***************************************************************************)
\* the request lacks a field its route requires
RequiredFieldMissing ==
  \/ /\ request.route = "repository"
     /\ request.body.repoUrl = Undefined \/ request.body.pat = Undefined
  \/ /\ request.route = "classify"
     /\ request.body.fileContent = Undefined

\* C13: a repository request without repoUrl or without the access token, and
\* a classification request without fileContent, are answered with status 400
\* and success=false, and neither the hosting API nor the model is called.
C13_MissingFieldsAnswered400 ==
  RequiredFieldMissing =>
    /\ upstream = <<>>
    /\ httpPc = "done" =>
         /\ reply.status = 400
         /\ reply.body.success = FALSE

\* the classification endpoint has replied with a classification
Classified ==
  /\ request.route = "classify"
  /\ httpPc = "done"
  /\ reply.status = 200

\* the text the model returned
VerdictText == upstream[1].response.content

\* C18: the classification returned is 'logic' exactly when the verdict text
\* of the model contains "logic" in any letter case and 'boilerplate'
\* otherwise; the verdict text is returned unchanged as analysis.
C18_LogicIffVerdictMentionsLogic ==
  Classified =>
    /\ reply.body.success = TRUE
    /\ reply.body.analysis = VerdictText
    /\ reply.body.classification \in {"logic", "boilerplate"}
    /\ reply.body.classification = "logic" <=>
         ContainsIgnoringCase(VerdictText.v, <<"l","o","g","i","c">>)

\* a verdict that says LOGIC in capitals was classified 'logic'
C18_Witness ==
  /\ Classified
  /\ VerdictText = Str(<<"T","h","i","s"," ","i","s"," ","L","O","G","I","C"," ","c","o","d","e">>)
  /\ reply.body.classification = "logic"

\* the repository endpoint has replied with a listing
Listed ==
  /\ request.route = "repository"
  /\ httpPc = "done"
  /\ reply.status = 200

\* the tree the hosting API returned
ListedTree == upstream[2].response.data.tree.v

\* the last three characters of the path are ".cs"
HasCsExtension(path) ==
  /\ Len(path) >= 3
  /\ path[Len(path) - 2] = "." /\ path[Len(path) - 1] = "c" /\ path[Len(path)] = "s"

\* the positions of the tree whose entry is a regular file with extension .cs
CsBlobPositions ==
  {k \in 1..Len(ListedTree) :
     /\ HasCsExtension(ListedTree[k].path.v)
     /\ ListedTree[k].type.v = <<"b","l","o","b">>}

\* the k-th smallest member of a set of positions
RECURSIVE NthPosition(_, _)
NthPosition(positions, k) ==
  LET least == CHOOSE p \in positions : \A q \in positions : p <= q IN
  IF k = 1 THEN least ELSE NthPosition(positions \ {least}, k - 1)

\* C19: the files the repository endpoint returns are exactly the entries of
\* the recursive tree of the default branch whose path ends in '.cs' and whose
\* type is 'blob', in the order of the tree.
C19_ListingIsCsBlobsInTreeOrder ==
  Listed =>
    /\ upstream[2].branch = upstream[1].response.data.default_branch
    /\ Len(reply.body.files) = Cardinality(CsBlobPositions)
    /\ \A k \in 1..Len(reply.body.files) :
         reply.body.files[k] = ListedTree[NthPosition(CsBlobPositions, k)]

\* a tree of a project file and a source file was listed as the source file
C19_Witness ==
  /\ Listed
  /\ Len(ListedTree) = 2
  /\ ListedTree[1].path = Str(<<"A","p","p",".","c","s","p","r","o","j">>)
  /\ ListedTree[2].path = Str(<<"s","r","c","/","C","a","l","c",".","c","s">>)
  /\ reply.body.files = <<ListedTree[2]>>


(***************************************************************************)
(* C15, C16, C17 (SpecRunTest)                                             *)
(***************************************************************************)
\* the class name of a source text: the name behind its first class
\* declaration, 'TestClass' when it declares none
SourceClassName(source) ==
  IF azureClassMatch(source) = <<>> THEN TestClass ELSE azureClassMatch(source)

\* the calls of runTestOnAzure that reach the POST and whose source text has
\* the class name of the call in progress
CallsWithSameClassName ==
  {other \in RunArgs :
     /\ isString(other.fileName)
     /\ isString(sourceCodeParam(other))
     /\ SourceClassName(sourceCodeParam(other).v) =
          SourceClassName(sourceCodeParam(rtArgs).v)}

\* C15: the payload submitted to the sandbox does not depend on the generated
\* test text, and depends on the source text only through the class name of
\* its first class declaration: every call whose source yields the same class
\* name submits the identical {sourceCode, testCode}.
C15_PayloadDependsOnClassNameOnly ==
  azureRequest # NoRequest =>
    \A other \in CallsWithSameClassName :
      azureRequestBody(other.testCode, sourceCodeParam(other).v) = azureRequest

\* a call with one source text declaring Calc and no test text has posted
\* what a call with another source text declaring Calc and a test text posts
C15_Witness ==
  /\ rtPc = "posted"
  /\ rtArgs.testCode = Undefined
  /\ rtArgs.sourceCode =
       Str(<<"c","l","a","s","s"," ","C","a","l","c"," ","{"," ","i","n","t"," ","x",";"," ","}">>)
  /\ azureRequest.sourceCode.className = <<"C","a","l","c">>
  /\ \E other \in CallsWithSameClassName :
       /\ other.testCode # rtArgs.testCode
       /\ other.sourceCode # rtArgs.sourceCode

\* the POST settled with a body and runTestOnAzure returned it
SandboxBodyReturned ==
  /\ azureResult # NoResult
  /\ azureResult.t # "failure"

\* an entry of details as the normalization leaves it: the four fields, each
\* a value of the sandbox that is not falsy or else its default
NormalizedEntry(entry) ==
  /\ DOMAIN entry = {"name", "result", "duration", "error"}
  /\ truthy(entry.name) /\ truthy(entry.result) /\ truthy(entry.duration)
  /\ truthy(entry.error) \/ entry.error = Null

\* C16: in every response body runTestOnAzure returns, details is an array
\* and each of its entries has exactly the fields name, result, duration and
\* error, missing or falsy ones replaced by their defaults; a missing or
\* non-array details has become the empty array.
C16_DetailsNormalized ==
  SandboxBodyReturned =>
    /\ "details" \in DOMAIN azureResult
    /\ isArray(azureResult.details)
    /\ \A k \in 1..Len(azureResult.details.v) :
         NormalizedEntry(azureResult.details.v[k])

\* the part of C16 the code keeps: the details of a body that is an object
\* are normalized
DetailsNormalizedInObjects ==
  (SandboxBodyReturned /\ azureResult.t = "object") =>
    /\ isArray(azureResult.details)
    /\ \A k \in 1..Len(azureResult.details.v) :
         NormalizedEntry(azureResult.details.v[k])

\* runTestCode returned the online result
OnlineResultReturned ==
  /\ rtPc = "done"
  /\ rtOutcome.t = "resolved"
  /\ "onlineExecution" \in DOMAIN rtOutcome.value

\* the fields of a TestRunResult that the fallback object carries
TestRunResultFields ==
  {"success", "passed", "failed", "skipped", "total", "duration", "details"}

\* C17: the online result of runTestCode carries the fields success, passed,
\* failed, skipped, total, duration and details (entries with name, result,
\* duration, error) that the local-fallback result carries, for every sandbox
\* body accepted as a success.
C17_OnlineResultShapedAsFallback ==
  OnlineResultReturned =>
    /\ TestRunResultFields \subseteq DOMAIN rtOutcome.value
    /\ \A k \in 1..Len(rtOutcome.value.details.v) :
         DOMAIN rtOutcome.value.details.v[k] = {"name", "result", "duration", "error"}


(***************************************************************************)
(* Specification: analyzeLogicFiles over model answers that differ in the  *)
(* missing core functionalities                                            *)
(***************************************************************************)
MissingCoreArrays ==
  {Undefined, Arr(<<>>), Arr(<<FnAdd>>), Arr(<<FnSub, FnAdd>>),
   Arr(<<FnAdd, FnSub, FnAdd>>), Arr(<<FnAddLower, FnSub>>)}

MissingCoreResponses ==
  {Failure} \cup
  {Ok(Payload(SummaryS, Arr(<<FnAdd>>), Arr(<<FnAdd>>), m, Arr(<<>>), Undefined,
              Undefined)) : m \in MissingCoreArrays}

InitMissingCore == InitAnalysis(AnalysisFiles) /\ RunIdle /\ HttpIdle /\ UiIdle

CompleteMissingCore ==
  \E i \in 1..MaxFiles, response \in MissingCoreResponses : Complete(i, response)

NextMissingCore == Dispatch \/ CompleteMissingCore \/ Join

SpecMissingCore == InitMissingCore /\ [][NextMissingCore]_vars

(***************************************************************************)
(* C20 (SpecMissingCore)                                                   *)
(***************************************************************************)
\* the places (file, position in the file's list) where a successful analysis
\* names f as missing
MissingCoreOccurrences(f) ==
  UNION {{<<i, k>> : k \in {n \in 1..Len(responses[i].body.missingCoreFunctionalities.v) :
                              responses[i].body.missingCoreFunctionalities.v[n] = f}} :
           i \in {j \in LogicIndices :
                    /\ Succeeded(j)
                    /\ isArray(responses[j].body.missingCoreFunctionalities)}}

\* file order, then position within the file
OccursBefore(a, b) == a[1] < b[1] \/ (a[1] = b[1] /\ a[2] < b[2])

FirstOccurrence(f) ==
  CHOOSE a \in MissingCoreOccurrences(f) :
    \A b \in MissingCoreOccurrences(f) : a = b \/ OccursBefore(a, b)

\* every string some successful analysis names as missing
MissingCoreNames ==
  UNION {Elements(responses[i].body.missingCoreFunctionalities) :
           i \in {j \in LogicIndices : Succeeded(j)}}

\* C20: the aggregate's missingCoreFunctionalities holds every string that
\* occurs in missingCoreFunctionalities of a successful analysis, each exactly
\* once, ordered by first occurrence (file order, then position in the file).
C20_MissingCoreDeduplicatedInFirstSeenOrder ==
  Aggregated =>
    LET missing == ret.missingCoreFunctionalities IN
    /\ {missing[k] : k \in 1..Len(missing)} = MissingCoreNames
    /\ \A j, k \in 1..Len(missing) :
         j < k =>
           /\ missing[j] # missing[k]
           /\ OccursBefore(FirstOccurrence(missing[j]), FirstOccurrence(missing[k]))

\* the first file misses Sub and Add, the second Add, Sub and Add again: the
\* aggregate lists Sub, then Add
C20_Witness ==
  /\ Aggregated
  /\ Len(logicFiles) = 2
  /\ Succeeded(1) /\ Succeeded(2)
  /\ responses[1].body.missingCoreFunctionalities = Arr(<<FnSub, FnAdd>>)
  /\ responses[2].body.missingCoreFunctionalities = Arr(<<FnAdd, FnSub, FnAdd>>)
  /\ ret.missingCoreFunctionalities = <<FnSub, FnAdd>>

(***************************************************************************)
(* Specification: analyzeLogicFiles over file records of every             *)
(* classification the client stores                                        *)
(***************************************************************************)
\* 'logic' and 'boilerplate' come from the classifier, 'unknown' is its
\* default, 'error' is what the client records for a file it could not
\* process; 'Logic' differs from 'logic' in case only
Classifications == {"logic", "boilerplate", "error", "unknown", "Logic"}

ClassifiedFiles ==
  {File(n, ContentPlain, k) :
     n \in {NameCalc, NameUtil, NameErrorPage}, k \in Classifications}

InitClassified == InitAnalysis(ClassifiedFiles) /\ RunIdle /\ HttpIdle /\ UiIdle

CompleteClassified ==
  \E i \in pending : \E r \in ExclusionResponses : Complete(i, r)

NextClassified == Dispatch \/ CompleteClassified \/ Join

SpecClassified == InitClassified /\ [][NextClassified]_vars

(***************************************************************************)
(* C22 (SpecClassified)                                                    *)
(***************************************************************************)
\* the positions of the request whose record is classified exactly 'logic'
LogicPositions == {k \in 1..Len(files) : files[k].classification = "logic"}

\* the position in the request of the n-th logic record
NthLogicPosition(n) ==
  CHOOSE k \in LogicPositions :
    Cardinality({j \in LogicPositions : j < k}) = n - 1

\* C22: once analyzeLogicFiles has dispatched, the files it works on are the
\* records of the request classified exactly 'logic', in request order; a
\* model call is issued for such records only; and the aggregate it returns
\* has one entry of fileAnalyses per logic record, none for any other record,
\* and fileCount.total equal to the number of logic records.
C22_OnlyLogicFilesAnalyzed ==
  pc # "start" =>
    /\ Len(logicFiles) = Cardinality(LogicPositions)
    /\ \A i \in LogicIndices : logicFiles[i] = files[NthLogicPosition(i)]
    /\ Len(modelCalls) = Cardinality(LogicPositions)
    /\ Aggregated =>
         /\ ret.fileCount.total = Cardinality(LogicPositions)
         /\ Len(ret.fileAnalyses) = Cardinality(LogicPositions)
         /\ \A i \in LogicIndices :
              ret.fileAnalyses[i].fileName = files[NthLogicPosition(i)].path

\* a record classified 'error' before a logic record: one call, one entry
C22_Witness ==
  /\ Aggregated
  /\ Len(files) = 2
  /\ files[1].classification = "error"
  /\ files[2].classification = "logic"
  /\ files[1].path = NameUtil
  /\ modelCalls = <<1>>
  /\ ret.fileCount.total = 1
  /\ Len(ret.fileAnalyses) = 1
  /\ ret.fileAnalyses[1].fileName = files[2].path

(***************************************************************************)
(* C29 (SpecExclusion)                                                     *)
(***************************************************************************)
\* the logic files that were not skipped: those a model call was issued for
NonSkippedIndices == {i \in LogicIndices : modelCalls[i] > 0}

\* analyzeLogicFiles has returned, at least one logic file was not skipped,
\* and the analysis of every file that was not skipped failed
EveryAnalysisFailed ==
  /\ pc = "done"
  /\ NonSkippedIndices # {}
  /\ \A i \in NonSkippedIndices : Failed(i)

\* C29: when at least one logic file is not skipped and the analysis of every
\* file that is not skipped fails, analyzeLogicFiles returns success = true
\* with an empty functionalityComparison, empty missingCoreFunctionalities
\* and criticalTestCases, coveragePercentage 0, the placeholder summary, and
\* fileCount.analyzed equal to the number of files that were not skipped.
C29_AllFailedStillAggregates ==
  EveryAnalysisFailed =>
    /\ ret.success
    /\ ret.functionalityComparison = <<>>
    /\ ret.missingCoreFunctionalities = <<>>
    /\ ret.criticalTestCases = <<>>
    /\ ret.coveragePercentage = 0
    /\ ret.summary = NoSummary
    /\ ret.fileCount.analyzed = Cardinality(NonSkippedIndices)

\* a skipped file and a file whose model call failed
C29_Witness ==
  /\ EveryAnalysisFailed
  /\ Len(logicFiles) = 2
  /\ ret.fileAnalyses[1].skipped
  /\ Failed(2)
  /\ ret.fileCount = [total |-> 2, analyzed |-> 1, skipped |-> 1]
  /\ ret.summary = NoSummary

(***************************************************************************)
(* C23, C24 (SpecRunTest)                                                  *)
(***************************************************************************)
\* runTestOnAzure was called and has returned
AzureReturned == rtPc \in {"resume", "done"} /\ isString(rtArgs.fileName)

\* an exception while the request was prepared: nothing was posted
PreparationFailed == AzureReturned /\ azureRequest = NoRequest

\* axios.post rejected: a transport error or a status outside 2xx
PostRejected == AzureReturned /\ azureResponse.t = "error"

\* the response carried no body
EmptyBody == AzureReturned /\ azureResponse.t = "empty"

\* the response carried a body
BodyReceived == AzureReturned /\ azureResponse.t = "data"

\* C23: runTestOnAzure always returns a value; after a transport error, a
\* status outside 2xx, an empty response body or an exception while the
\* request was prepared, that value is {success: false, error, results: null}
\* with a string as error.
C23_AzureFailureIsReturned ==
  AzureReturned =>
    /\ azureResult # NoResult
    /\ (PreparationFailed \/ PostRejected \/ EmptyBody) =>
         /\ DOMAIN azureResult = {"t", "success", "error", "results"}
         /\ azureResult.t = "failure"
         /\ azureResult.success = Bool(FALSE)
         /\ isString(azureResult.error)
         /\ azureResult.results = Null
    /\ EmptyBody => azureResult.error = Str(InvalidResponse)
    /\ PostRejected => azureResult.error = Str(azureResponse.message)

\* a source text that is not a string: the failure is returned without a POST
C23_Witness ==
  /\ rtPc = "resume"
  /\ PreparationFailed
  /\ rtArgs.sourceCode = Null
  /\ azureResult.success = Bool(FALSE)
  /\ azureResult.results = Null

\* runTestCode returned the local-instructions fallback
FallbackReturned ==
  /\ rtPc = "done"
  /\ rtOutcome.t = "resolved"
  /\ "localExecution" \in DOMAIN rtOutcome.value

\* C24: runTestCode returns the local-instructions fallback only after the
\* remote execution failed (transport error, status outside 2xx, empty body);
\* whenever the POST completed with a body, the result runTestCode returns is
\* that body with onlineExecution = true; and every result carries exactly one of
\* onlineExecution and localExecution.
C24_FallbackOnlyOnRemoteFailure ==
  /\ FallbackReturned => (PreparationFailed \/ PostRejected \/ EmptyBody)
  /\ (rtPc = "done" /\ BodyReceived /\ rtOutcome.t = "resolved") =>
       /\ OnlineResultReturned
       /\ rtOutcome.value.onlineExecution = Bool(TRUE)
  /\ (rtPc = "done" /\ rtOutcome.t = "resolved") =>
       ("onlineExecution" \in DOMAIN rtOutcome.value)
         # ("localExecution" \in DOMAIN rtOutcome.value)

\* the part of C24 the code keeps: the online result is returned exactly
\* when the value of runTestOnAzure has a truthy success, and every result
\* carries exactly one of the two flags
OnlineIffSuccessTruthy ==
  (rtPc = "done" /\ rtOutcome.t = "resolved") =>
    /\ OnlineResultReturned <=> truthy(property(azureResult, "success"))
    /\ FallbackReturned <=> ~truthy(property(azureResult, "success"))
    /\ OnlineResultReturned # FallbackReturned

(***************************************************************************)
(* Bounds of the sessions of the App component                             *)
(***************************************************************************)
\* the runs of handleSubmit a session starts
MaxSubmits == 2
\* the files a repository listing names
MaxListed == 2
\* the runs of generateTest awaiting their response at one time
MaxRequests == 2

(***************************************************************************)
(* App.js : atob, as the browser defines it (forgiving-base64 decode)      *)
(***************************************************************************)
Base64Alphabet ==
  <<"A","B","C","D","E","F","G","H","I","J","K","L","M","N","O","P","Q","R","S","T","U","V","W","X","Y","Z","a","b","c","d","e","f","g","h","i","j","k","l","m","n","o","p","q","r","s","t","u","v","w","x","y","z","0","1","2","3","4","5","6","7","8","9","+","/">>

\* the characters with the codes 32 to 126
PrintableAscii ==
  <<" ","!","\"","#","$","%","&","'","(",")","*","+",",","-",".","/","0","1","2","3","4","5","6","7","8","9",":",";","<","=",">","?","@","A","B","C","D","E","F","G","H","I","J","K","L","M","N","O","P","Q","R","S","T","U","V","W","X","Y","Z","[","\\","]","^","_",Backtick,"a","b","c","d","e","f","g","h","i","j","k","l","m","n","o","p","q","r","s","t","u","v","w","x","y","z","{","|","}","~">>

AsciiWhitespace == {" ", "\t", "\n", "\f", "\r"}

base64Index(c) == (CHOOSE k \in 1..Len(Base64Alphabet) : Base64Alphabet[k] = c) - 1

\* String.fromCharCode of one byte
fromCharCode(code) ==
  IF code >= 32 /\ code <= 126 THEN PrintableAscii[code - 31] ELSE [code |-> code]

\* String(data): atob converts its argument to a string first
toAtobString(data) ==
  IF isString(data) THEN data.v
  ELSE IF data = Undefined THEN <<"u","n","d","e","f","i","n","e","d">>
  ELSE <<"n","u","l","l">>

\* the argument without ASCII whitespace, and without the one or two "=" that
\* end a text whose length is a multiple of four
base64Digits(data) ==
  LET s == SelectSeq(toAtobString(data), LAMBDA c : c \notin AsciiWhitespace)
      n == Len(s)
  IN IF n > 0 /\ n % 4 = 0 /\ s[n] = "="
     THEN IF s[n - 1] = "=" THEN SubSeq(s, 1, n - 2) ELSE SubSeq(s, 1, n - 1)
     ELSE s

\* atob throws InvalidCharacterError
atobThrows(data) ==
  LET s == base64Digits(data) IN
  \/ Len(s) % 4 = 1
  \/ \E k \in 1..Len(s) : \A j \in 1..Len(Base64Alphabet) : Base64Alphabet[j] # s[k]

\* the bytes of the digits from position i on: four digits carry three bytes,
\* a final group of three carries two and one of two carries one
RECURSIVE base64Bytes(_, _)
base64Bytes(s, i) ==
  LET left == Len(s) - i + 1
      d(k) == base64Index(s[i + k])
  IN IF left <= 1 THEN <<>>
     ELSE IF left = 2 THEN <<(d(0) * 64 + d(1)) \div 16>>
     ELSE IF left = 3
     THEN LET n == d(0) * 4096 + d(1) * 64 + d(2) IN
          <<n \div 1024, (n \div 4) % 256>>
     ELSE LET n == d(0) * 262144 + d(1) * 4096 + d(2) * 64 + d(3) IN
          <<n \div 65536, (n \div 256) % 256, n % 256>> \o base64Bytes(s, i + 4)

\* atob(data) when it does not throw: one character per byte
atob(data) ==
  LET bytes == base64Bytes(base64Digits(data), 1) IN
  [k \in 1..Len(bytes) |-> fromCharCode(bytes[k])]

(***************************************************************************)
(* App.js : the App component                                              *)
(***************************************************************************)
\* the state hooks after the first render (texts the component only shows
\* are strings; texts it tests are sequences of characters)
InitialApp ==
  [repoUrl |-> <<>>, pat |-> <<>>, loading |-> FALSE, error |-> "",
   files |-> <<>>, selectedFile |-> Null, testCode |-> <<>>,
   testLoading |-> FALSE, testResult |-> Null, analysisLoading |-> FALSE,
   analysisResults |-> Null, analysisError |-> ""]

GithubCom == <<"g","i","t","h","u","b",".","c","o","m">>

\* the message of the Error the input validation throws, "" when it passes
validationError(repoUrl, pat) ==
  IF ~includes(repoUrl, GithubCom)
  THEN "Please enter a valid GitHub repository URL"
  ELSE IF Len(pat) = 0
  THEN "Please enter your GitHub Personal Access Token"
  ELSE ""

\* err.response?.data?.error || err.message || 'An error occurred'
errorText(err) ==
  IF err.responseError # "" THEN err.responseError
  ELSE IF err.message # "" THEN err.message
  ELSE "An error occurred"

\* the six setters handleSubmit calls before its try block
resetForSubmit(state) ==
  [state EXCEPT !.loading = TRUE, !.error = "", !.files = <<>>,
                !.selectedFile = Null, !.testCode = <<>>, !.testResult = Null]

\* the catch block of handleSubmit
submitFailed(state, text) == [state EXCEPT !.error = text]

\* a finally block that leaves loading as it is
finishSubmitKeepsLoading(state) == state

\* the finally block of handleSubmit
finishSubmit(state) == [state EXCEPT !.loading = FALSE]

\* a submit button that is never disabled
submitAlwaysEnabled(state) == FALSE

\* disabled={loading} of the submit button
submitDisabled(state) == state.loading

\* files.length > 0 && !loading: the tabs with the file list and the Logic
\* Analysis panel are rendered
tabsRendered(state) == Len(state.files) > 0 /\ ~state.loading

\* files.filter(f => f.classification === 'logic')
logicFilesOf(fs) == SelectSeq(fs, LAMBDA f : f.classification = "logic")

\* disabled={analysisLoading || no logic file} of the Analyze Logic button
analyzeDisabled(state) ==
  state.analysisLoading \/ Len(logicFilesOf(state.files)) = 0

\* a run of handleSubmit that has returned
DoneRun == [pc |-> "done"]

\* a run of handleSubmit suspended in its loop
LoopRun(at, fetchedFiles, classifiedFiles, settled, fileContent) ==
  [pc |-> at, fetchedFiles |-> fetchedFiles, classifiedFiles |-> classifiedFiles,
   settled |-> settled, fileContent |-> fileContent]

\* the file recorded without the classification 'error'
unclassifiedRecord(file) ==
  ("classification" :> "unknown") @@ ("analysis" :> "Error processing file") @@ file

\* { ...file, classification: 'error', analysis: 'Error processing file' }
errorRecord(file) ==
  ("classification" :> "error") @@ ("analysis" :> "Error processing file") @@ file

\* { ...file, content, classification, analysis }
classifiedRecord(file, fileContent, classifyResponse) ==
  ("content" :> fileContent) @@
  ("classification" :> classifyResponse.classification) @@
  ("analysis" :> classifyResponse.analysis) @@ file

\* response.files || [], and whether the for-of loop can iterate over it
fetchedFilesOf(data) ==
  IF data = Undefined THEN [ok |-> FALSE, message |-> "TypeError"]
  ELSE LET listed == property(data, "files") IN
       IF ~truthy(listed) THEN [ok |-> TRUE, files |-> <<>>]
       ELSE IF isArray(listed) THEN [ok |-> TRUE, files |-> listed.v]
       ELSE [ok |-> FALSE, message |-> "TypeError"]

\* onChange of the two inputs
ChangeRepoUrl(text) ==
  /\ app.repoUrl # text
  /\ app' = [app EXCEPT !.repoUrl = text]
  /\ UNCHANGED <<submits, testRequests, analysisRequests, analysisVars, runVars,
                 httpVars>>

ChangePat(text) ==
  /\ app.pat # text
  /\ app' = [app EXCEPT !.pat = text]
  /\ UNCHANGED <<submits, testRequests, analysisRequests, analysisVars, runVars,
                 httpVars>>

\* onDismiss of ErrorMessage
DismissError ==
  /\ app.error # ""
  /\ app' = [app EXCEPT !.error = ""]
  /\ UNCHANGED <<submits, testRequests, analysisRequests, analysisVars, runVars,
                 httpVars>>

\* handleSubmit up to `await fetchRepositoryFiles(...)`, or to its return when
\* the validation throws.  The form is submitted through its submit button,
\* which is disabled while loading is true.
HandleSubmit ==
  /\ ~submitDisabled(app)
  /\ Len(submits) < MaxSubmits
  /\ LET cleared == resetForSubmit(app)
         invalid == validationError(app.repoUrl, app.pat)
     IN IF invalid # ""
        THEN /\ app' = finishSubmit(submitFailed(cleared, invalid))
             /\ submits' = Append(submits, DoneRun)
        ELSE /\ app' = cleared
             /\ submits' = Append(submits, [pc |-> "listing"])
  /\ UNCHANGED <<testRequests, analysisRequests, analysisVars, runVars, httpVars>>

\* fetchRepositoryFiles settles in run r: a rejection goes to the catch block;
\* a listing starts the loop, and an empty one ends the run
FetchRepositoryFilesSettles(r, response) ==
  /\ r \in DOMAIN submits
  /\ submits[r].pc = "listing"
  /\ IF response.t = "rejected"
     THEN /\ app' = finishSubmit(submitFailed(app, errorText(response)))
          /\ submits' = [submits EXCEPT ![r] = DoneRun]
     ELSE LET fetched == fetchedFilesOf(response.data) IN
          IF ~fetched.ok
          THEN /\ app' = finishSubmit(submitFailed(app, fetched.message))
               /\ submits' = [submits EXCEPT ![r] = DoneRun]
          ELSE IF Len(fetched.files) = 0
          THEN /\ app' = finishSubmit([app EXCEPT !.files = <<>>])
               /\ submits' = [submits EXCEPT ![r] = DoneRun]
          ELSE /\ app' = app
               /\ submits' = [submits EXCEPT
                                ![r] = LoopRun("contents", fetched.files, <<>>, <<>>, <<>>)]
  /\ UNCHANGED <<testRequests, analysisRequests, analysisVars, runVars, httpVars>>

\* the end of one iteration of the loop of run r, which pushed `record` after
\* `outcome` settled: the next iteration starts, or the loop is over and
\* setFiles and the finally block run
nextIteration(r, record, outcome) ==
  LET run == submits[r]
      classified == Append(run.classifiedFiles, record)
  IN IF Len(classified) = Len(run.fetchedFiles)
     THEN /\ app' = finishSubmit([app EXCEPT !.files = classified])
          /\ submits' = [submits EXCEPT ![r] = DoneRun]
     ELSE /\ app' = app
          /\ submits' = [submits EXCEPT
                           ![r] = LoopRun("contents", run.fetchedFiles, classified,
                                          Append(run.settled, outcome), <<>>)]

\* the request for the contents of the current file of run r settles: fetch
\* rejects, or contentResponse.json() rejects, or atob throws (the catch
\* block of the iteration pushes the error record), or the content is decoded
\* and classifyFile is called
ContentsSettles(r, outcome) ==
  /\ r \in DOMAIN submits
  /\ submits[r].pc = "contents"
  /\ LET run == submits[r]
         file == run.fetchedFiles[Len(run.classifiedFiles) + 1]
     IN IF outcome.t # "json" \/ atobThrows(outcome.content)
        THEN nextIteration(r, errorRecord(file), outcome)
        ELSE /\ app' = app
             /\ submits' = [submits EXCEPT
                              ![r] = LoopRun("classify", run.fetchedFiles,
                                             run.classifiedFiles, run.settled,
                                             atob(outcome.content))]
  /\ UNCHANGED <<testRequests, analysisRequests, analysisVars, runVars, httpVars>>

\* classifyFile settles for the current file of run r
ClassifyFileSettles(r, response) ==
  /\ r \in DOMAIN submits
  /\ submits[r].pc = "classify"
  /\ LET run == submits[r]
         file == run.fetchedFiles[Len(run.classifiedFiles) + 1]
     IN IF response.t = "rejected"
        THEN nextIteration(r, errorRecord(file), response)
        ELSE nextIteration(r, classifiedRecord(file, run.fileContent, response.data),
                           response)
  /\ UNCHANGED <<testRequests, analysisRequests, analysisVars, runVars, httpVars>>

\* the sequence without its k-th element
removeAt(seq, k) == SubSeq(seq, 1, k - 1) \o SubSeq(seq, k + 1, Len(seq))

\* handleFileSelect for a row of the file list, and generateTest up to
\* `await generateTestApi(...)` when the file is a logic file
HandleFileSelect(file) ==
  /\ tabsRendered(app)
  /\ \E k \in 1..Len(app.files) : app.files[k] = file
  /\ LET selected == [app EXCEPT !.selectedFile = file, !.testCode = <<>>,
                                 !.testResult = Null]
     IN IF file.classification = "logic"
        THEN /\ Len(testRequests) < MaxRequests
             /\ app' = [selected EXCEPT !.testLoading = TRUE]
             /\ testRequests' = Append(testRequests, [file |-> file])
        ELSE /\ app' = selected
             /\ testRequests' = testRequests
  /\ UNCHANGED <<submits, analysisRequests, analysisVars, runVars, httpVars>>

\* generateTestApi settles for the k-th waiting run of generateTest
GenerateTestResponds(k, response) ==
  /\ k \in DOMAIN testRequests
  /\ testRequests' = removeAt(testRequests, k)
  /\ LET settled ==
           IF response.t = "rejected"
           THEN [app EXCEPT !.error = "Error generating test: " \o response.message]
           ELSE IF response.data.success
           THEN [app EXCEPT !.testCode = response.data.testCode]
           ELSE [app EXCEPT !.error = "Error generating test: Failed to generate test code"]
     IN app' = [settled EXCEPT !.testLoading = FALSE]
  /\ UNCHANGED <<submits, analysisRequests, analysisVars, runVars, httpVars>>

\* handleAnalyzeLogic up to `await analyzeLogicFilesApi(...)`, or to one of
\* its early returns
HandleAnalyzeLogic ==
  /\ tabsRendered(app)
  /\ ~analyzeDisabled(app)
  /\ IF Len(app.files) = 0
     THEN /\ app' = [app EXCEPT !.analysisError = "No files available for analysis"]
          /\ analysisRequests' = analysisRequests
     ELSE LET filesToAnalyze ==
                [k \in 1..Len(logicFilesOf(app.files)) |->
                   [path |-> logicFilesOf(app.files)[k].path,
                    content |-> logicFilesOf(app.files)[k].content,
                    classification |-> logicFilesOf(app.files)[k].classification]]
          IN IF Len(filesToAnalyze) = 0
             THEN /\ app' = [app EXCEPT !.analysisError = "No logic files found for analysis",
                                        !.analysisLoading = FALSE]
                  /\ analysisRequests' = analysisRequests
             ELSE /\ app' = [app EXCEPT !.analysisLoading = TRUE, !.analysisError = ""]
                  /\ analysisRequests' = Append(analysisRequests, [files |-> filesToAnalyze])
  /\ UNCHANGED <<submits, testRequests, analysisVars, runVars, httpVars>>

\* analyzeLogicFilesApi settles for the k-th waiting run of handleAnalyzeLogic
AnalyzeLogicResponds(k, response) ==
  /\ k \in DOMAIN analysisRequests
  /\ analysisRequests' = removeAt(analysisRequests, k)
  /\ LET settled ==
           IF response.t = "rejected"
           THEN [app EXCEPT !.analysisError = "Error analyzing logic files: " \o response.message,
                            !.analysisResults = Null]
           ELSE [app EXCEPT !.analysisResults = response.data]
     IN app' = [settled EXCEPT !.analysisLoading = FALSE]
  /\ UNCHANGED <<submits, testRequests, analysisVars, runVars, httpVars>>

(***************************************************************************)
(* LogicAnalysis and FileDetails : what they render                        *)
(***************************************************************************)
\* the branch LogicAnalysis returns from; "TypeError" when it reads a
\* property of null or undefined
LogicAnalysis(results, loading, error) ==
  IF loading THEN "Analyzing Logic Files..."
  ELSE IF error # ""
  THEN IF results = Null THEN "TypeError" ELSE "Analysis Error"
  ELSE IF results = Null THEN "No Analysis Available"
  ELSE IF ~results.success THEN "Analysis Failed"
  ELSE IF "results" \notin DOMAIN results THEN "TypeError"
  ELSE "Coverage"

\* what the Generated Tests tab of FileDetails shows for the selected file
generatedTestsTab(file, testCode, testLoading) ==
  IF file.classification # "logic" THEN "no tab"
  ELSE IF testLoading THEN "Generating tests..."
  ELSE IF Len(testCode) > 0 THEN "code"
  ELSE "No test code generated yet"

(***************************************************************************)
(* Inputs of a session of the App component                                *)
(***************************************************************************)
FormRepoUrls == {<<"h","t","t","p","s",":","/","/","g","i","t","h","u","b",".","c","o","m","/","o","/","r">>, <<"h","t","t","p","s",":","/","/","g","i","t","l","a","b",".","c","o","m","/","o","/","r">>}
FormPats == {<<"g","h","p","_","1">>, <<>>}

ListedPaths == <<NameCalc, NameUtil, NameDto, NameErrorPage>>

\* the first n files of the repository, as /api/repository lists them
Listing(n) == [k \in 1..n |-> [path |-> ListedPaths[k]]]

\* how fetchRepositoryFiles settles: axios rejects (a status outside 2xx with
\* the error of the server, or no response), or it resolves to response.data
ListingResponses ==
  {[t |-> "rejected", responseError |-> "Failed to fetch repository files",
    message |-> "Request failed with status code 500"],
   [t |-> "rejected", responseError |-> "", message |-> "Network Error"],
   [t |-> "resolved", data |-> Undefined],
   [t |-> "resolved", data |-> [t |-> "object", success |-> TRUE]],
   [t |-> "resolved", data |-> [t |-> "object", success |-> TRUE, files |-> Num(1)]]} \cup
  {[t |-> "resolved",
    data |-> [t |-> "object", success |-> TRUE, files |-> Arr(Listing(n))]] :
     n \in 0..MaxListed}

\* how the request for the contents of a file settles: fetch rejects, the
\* body is not JSON, the JSON has no content (GitHub's {message: 'Not
\* Found'}), the content is not base64, or it is the base64 of "class A" with
\* the line feeds GitHub inserts
ContentsOutcomes ==
  {[t |-> "rejected"],
   [t |-> "notJson"],
   [t |-> "json", content |-> Undefined],
   [t |-> "json", content |-> Str(<<"Y","2","x","h","c","3","M","*">>)],
   [t |-> "json", content |-> Str(<<"Y","2","x","h","c","3","M","g","\n","Q","Q","=","=","\n">>)]}

\* how classifyFile settles: the two answers of /api/classify, or a rejection
ClassifyResponses ==
  {[t |-> "rejected"],
   [t |-> "resolved", data |-> [classification |-> "logic", analysis |-> "logic"]],
   [t |-> "resolved",
    data |-> [classification |-> "boilerplate", analysis |-> "boilerplate"]]}

\* the test code the server generates for a file: a text that names it
generatedTestCode(file) == <<"/","/"," ","t","e","s","t","s"," ","o","f"," ">> \o file.path

\* how generateTestApi settles for a file
GenerateTestResponses(file) ==
  {[t |-> "rejected", message |-> "Network Error"],
   [t |-> "resolved", data |-> [success |-> FALSE]],
   [t |-> "resolved", data |-> [success |-> TRUE, testCode |-> generatedTestCode(file)]]}

\* how analyzeLogicFilesApi settles for the files posted: a rejection (status
\* outside 2xx, or no response), or the body of /api/analyze-logic around an
\* aggregate or around a failure of analyzeLogicFiles
AnalyzeLogicResponses(posted) ==
  {[t |-> "rejected", message |-> "Request failed with status code 500"],
   [t |-> "resolved",
    data |-> [success |-> TRUE,
              results |-> [success |-> TRUE,
                           fileCount |-> [total |-> Len(posted)],
                           coveragePercentage |-> 50]]],
   [t |-> "resolved",
    data |-> [success |-> TRUE,
              results |-> [success |-> FALSE, error |-> "Failed to analyze logic files"]]]}

InitApp ==
  /\ app = InitialApp
  /\ submits = <<>>
  /\ testRequests = <<>>
  /\ analysisRequests = <<>>
  /\ AnalysisIdle /\ RunIdle /\ HttpIdle

ChangeInputs ==
  \/ \E text \in FormRepoUrls : ChangeRepoUrl(text)
  \/ \E text \in FormPats : ChangePat(text)

ListingArrives ==
  \E r \in DOMAIN submits : \E response \in ListingResponses :
    FetchRepositoryFilesSettles(r, response)

ContentsArrive ==
  \E r \in DOMAIN submits : \E outcome \in ContentsOutcomes : ContentsSettles(r, outcome)

ClassificationArrives ==
  \E r \in DOMAIN submits : \E response \in ClassifyResponses :
    ClassifyFileSettles(r, response)

\* an awaited request of a run of handleSubmit settles
SubmitSettles == ListingArrives \/ ContentsArrive \/ ClassificationArrives

(***************************************************************************)
(* Specification: the analyze-repository form of App.  Every request a run *)
(* of handleSubmit awaits settles, by resolving or by rejecting.           *)
(***************************************************************************)
NextSubmit ==
  \/ ChangeInputs
  \/ DismissError
  \/ HandleSubmit
  \/ ListingArrives
  \/ ContentsArrive
  \/ ClassificationArrives

SpecSubmit == InitApp /\ [][NextSubmit]_vars /\ WF_vars(SubmitSettles)

(***************************************************************************)
(* Specification: a session of App, with the file list, the generated      *)
(* tests and the logic analysis                                            *)
(***************************************************************************)
SelectFile ==
  \E k \in 1..Len(app.files) : HandleFileSelect(app.files[k])

TestCodeArrives ==
  \E k \in DOMAIN testRequests :
    \E response \in GenerateTestResponses(testRequests[k].file) :
      GenerateTestResponds(k, response)

AnalysisArrives ==
  \E k \in DOMAIN analysisRequests :
    \E response \in AnalyzeLogicResponses(analysisRequests[k].files) :
      AnalyzeLogicResponds(k, response)

NextApp ==
  \/ ChangeInputs
  \/ DismissError
  \/ HandleSubmit
  \/ ListingArrives
  \/ ContentsArrive
  \/ ClassificationArrives
  \/ SelectFile
  \/ TestCodeArrives
  \/ HandleAnalyzeLogic
  \/ AnalysisArrives

SpecApp == InitApp /\ [][NextApp]_vars

(***************************************************************************)
(* C21 (SpecSubmit)                                                        *)
(***************************************************************************)
\* the runs of handleSubmit that have not returned
RunsInFlight == {r \in DOMAIN submits : submits[r].pc # "done"}

\* the runs of handleSubmit suspended in the loop over the listed files
RunsInLoop == {r \in DOMAIN submits : submits[r].pc \in {"contents", "classify"}}

\* fetching, decoding or classifying the file failed
ProcessingFailed(outcome) ==
  \/ outcome.t \in {"rejected", "notJson"}
  \/ outcome.t = "json" /\ atobThrows(outcome.content)

\* the k-th record of the run is the one its k-th file and what settled for
\* it call for: classification 'error' after a failure, else the
\* classification the classifier answered and the decoded content
RecordedAsSettled(run, k) ==
  LET record == run.classifiedFiles[k]
      outcome == run.settled[k]
  IN /\ record.path = run.fetchedFiles[k].path
     /\ ProcessingFailed(outcome) =>
          /\ record.classification = "error"
          /\ "content" \notin DOMAIN record
     /\ ~ProcessingFailed(outcome) =>
          /\ record.classification = outcome.data.classification
          /\ record.content = <<"c","l","a","s","s"," ","A">>

\* the step ends the loop of run r
LoopEnds(r) ==
  /\ r \in RunsInLoop
  /\ submits'[r].pc = "done"

\* C21: while handleSubmit is in its loop, it has recorded one file per listed
\* file processed so far, in listing order, each failure as a record with
\* classification 'error', and the loop goes on to the files that remain;
\* when the loop ends, files holds one record per listed file in listing
\* order, with the records made so far unchanged, and no error is set.
C21_FilesProcessedInIsolation ==
  /\ [](\A r \in RunsInLoop :
          /\ Len(submits[r].classifiedFiles) < Len(submits[r].fetchedFiles)
          /\ Len(submits[r].settled) = Len(submits[r].classifiedFiles)
          /\ \A k \in 1..Len(submits[r].classifiedFiles) :
               RecordedAsSettled(submits[r], k))
  /\ [][\A r \in DOMAIN submits :
          LoopEnds(r) =>
            /\ Len(app'.files) = Len(submits[r].fetchedFiles)
            /\ \A k \in 1..Len(app'.files) :
                 app'.files[k].path = submits[r].fetchedFiles[k].path
            /\ SubSeq(app'.files, 1, Len(submits[r].classifiedFiles))
                 = submits[r].classifiedFiles
            /\ app'.error = app.error]_vars

\* the contents of the first file could not be decoded; the loop is at the
\* classification of the second
C21_Witness ==
  \E r \in RunsInLoop :
    /\ submits[r].pc = "classify"
    /\ Len(submits[r].fetchedFiles) = 2
    /\ Len(submits[r].classifiedFiles) = 1
    /\ submits[r].settled[1].t = "json"
    /\ submits[r].classifiedFiles[1].classification = "error"
    /\ submits[r].fileContent = <<"c","l","a","s","s"," ","A">>

(***************************************************************************)
(* C25 (SpecSubmit)                                                        *)
(***************************************************************************)
\* C25: at most one run of handleSubmit is in flight, and while one is the
\* submit button is disabled.
C25_SingleBatchInFlight ==
  /\ Cardinality(RunsInFlight) <= 1
  /\ RunsInFlight # {} => submitDisabled(app)

\* a second run in its loop after the first has returned
C25_Witness ==
  /\ Len(submits) = 2
  /\ submits[1].pc = "done"
  /\ submits[2].pc = "contents"
  /\ app.loading

(***************************************************************************)
(* C30 (SpecSubmit)                                                        *)
(***************************************************************************)
\* the step starts a run of handleSubmit
SubmitStarts == Len(submits') = Len(submits) + 1

\* C30: loading is true exactly while a run of handleSubmit has not
\* returned, and every run returns: loading, once true, becomes false again.
\* A run whose input validation fails returns in the step that starts it,
\* with error set and no request made.
C30_LoadingReturnsToFalse ==
  /\ [](app.loading <=> RunsInFlight # {})
  /\ app.loading ~> ~app.loading
  /\ [][(SubmitStarts /\ validationError(app.repoUrl, app.pat) # "") =>
          /\ submits'[Len(submits')] = DoneRun
          /\ app'.error = validationError(app.repoUrl, app.pat)
          /\ ~app'.loading]_vars

\* a run has returned from a loop in which one file failed and the other
\* was classified
C30_Witness ==
  /\ Len(submits) >= 1
  /\ RunsInFlight = {}
  /\ ~app.loading
  /\ Len(app.files) = 2
  /\ app.files[1].classification = "error"
  /\ app.files[2].classification = "logic"
  /\ app.error = ""

(***************************************************************************)
(* C26 (SpecApp)                                                           *)
(***************************************************************************)
\* the Generated Tests tab shows test code (with its Run button) for the
\* selected file
TestCodeShown ==
  /\ tabsRendered(app)
  /\ app.selectedFile # Null
  /\ generatedTestsTab(app.selectedFile, app.testCode, app.testLoading) = "code"

\* C26: whenever no run of generateTest is waiting, test code that is shown
\* was generated for the selected file; and testLoading is true while a run
\* of generateTest for the selected file is waiting.
C26_TestCodeBelongsToSelectedFile ==
  /\ (testRequests = <<>> /\ TestCodeShown) =>
       app.testCode = generatedTestCode(app.selectedFile)
  /\ (\E k \in DOMAIN testRequests : testRequests[k].file = app.selectedFile) =>
       app.testLoading

\* the first half of C26 alone
ShownTestCodeIsOfSelectedFile ==
  (testRequests = <<>> /\ TestCodeShown) =>
    app.testCode = generatedTestCode(app.selectedFile)

(***************************************************************************)
(* C27 (SpecApp)                                                           *)
(***************************************************************************)
\* C27: the step that starts a run of handleSubmit leaves files empty, no
\* file selected, no test code, no test result, and no logic-analysis
\* results or error.
C27_SubmissionDiscardsPreviousSession ==
  [][SubmitStarts =>
       /\ app'.files = <<>>
       /\ app'.selectedFile = Null
       /\ app'.testCode = <<>>
       /\ app'.testResult = Null
       /\ app'.analysisResults = Null
       /\ app'.analysisError = ""]_vars

\* the part of C27 the code keeps
SubmissionClearsFileState ==
  [][SubmitStarts =>
       /\ app'.files = <<>>
       /\ app'.selectedFile = Null
       /\ app'.testCode = <<>>
       /\ app'.testResult = Null]_vars

(***************************************************************************)
(* C28 (SpecApp)                                                           *)
(***************************************************************************)
\* C28: whenever the Logic Analysis panel is rendered, LogicAnalysis returns
\* one of its alerts or the report, without reading a property of null; with
\* an error set it returns the error alert.
C28_LogicAnalysisRenders ==
  tabsRendered(app) =>
    /\ LogicAnalysis(app.analysisResults, app.analysisLoading, app.analysisError)
         # "TypeError"
    /\ (~app.analysisLoading /\ app.analysisError # "") =>
         LogicAnalysis(app.analysisResults, app.analysisLoading, app.analysisError)
           = "Analysis Error"

====
